---- MODULE Spec2Model ----
(***************************************************************************)
(* Sub-agent dispatch (agentTool.Run), its response recovery and the       *)
(* roll-up of the child session's cost into the caller's session.          *)
(*                                                                         *)
(* A Go string is a sequence of tokens: <<>> is "", a literal of the code  *)
(* is one token, concatenation is \o.  " " and "\n" are the whitespace     *)
(* tokens.                                                                 *)
(***************************************************************************)
EXTENDS Integers, Sequences, FiniteSets, TLC

VARIABLES
    scenario,        \* which calls and agent results the environment offers
    agents,          \* b.agents: the names the agent-service map has as keys
    ctxDone,         \* the caller's context (ctx) is cancelled or past its deadline
    sessions,        \* the session store: session id -> session
    startCost,       \* the caller session's cost before any dispatch
    pc,              \* each Run call's position
    call,            \* each Run call's input (tools.ToolCall and the ctx values)
    agent,           \* each sub-agent execution: idle, running, overdue (running
                     \* past the ceiling), finished, finished late
    doneCh,          \* the completion channel returned by agent.Run
    subAgentCtx,     \* the dispatch's own 30-minute context: none, live,
                     \* deadline exceeded, canceled
    err,             \* Run's local: the error of the last store or agent call
    response,        \* Run's local: the message received from the channel
    finishReason,    \* Run's local: the finish reason, declared or inferred
    contentStr,      \* Run's local: the text to return
    updatedSession,  \* Run's local: the child session as read
    parentSession,   \* Run's local: the caller session as read
    outcome,         \* what Run returned
    nReturns,        \* how often each Run call returned
    nSaves,          \* how often each Run call saved the caller session
    nRuns,           \* how often each Run call invoked agent.Run
    content,         \* parseAgentMarkdown's input: the content of one file
    parsed,          \* what parseAgentMarkdown returned for it
    converted,       \* what ConvertDefinitionToAgent made of the definition
    fs,              \* the home directory and the two agent directories
    definitions,     \* LoadAgentDefinitions' local agents: name -> definition
    loader,          \* LoadAgentDefinitions' position: directory and entry
    loadErr,         \* the error LoadAgentDefinitions returned
    agentConfigs,    \* b.agentConfigs: agent name -> config.Agent
    toolInfo,        \* what the last call of Info returned, and for which map
    sessionTitle,    \* the title Run made for a child session, and for which agent
    authFile,        \* auth.json in the AuthManager's data directory
    writable,        \* the data directory and the file can be written
    authCall         \* each caller of the AuthManager: its call and where it is

\* the state of the agent definitions and of the tool's metadata
parseVars == <<content, parsed, converted>>

loaderVars == <<fs, definitions, loader, loadErr>>

toolVars == <<agentConfigs, toolInfo, sessionTitle>>

\* the state of the credential storage
authVars == <<authFile, writable, authCall>>

configVars == <<parseVars, loaderVars, toolVars, authVars>>

\* the state of the dispatches
runVars == <<scenario, agents, ctxDone, sessions, startCost, pc, call, agent,
             doneCh, subAgentCtx, err, response, finishReason, contentStr,
             updatedSession, parentSession, outcome, nReturns, nSaves, nRuns>>

vars == <<runVars, configVars>>

----------------------------------------------------------------------------
(* Bounds *)

NumDispatch == 2
MaxParts == 2
MaxChildCost == 1
MaxStartCost == 1

\* items in one list of an agent definition
MaxItems == 2

\* entries in one agent directory
MaxFiles == 2

\* characters in an agent ID that is not built in
MaxNameLen == 3

\* calls of Info on one tool
MaxInfoCalls == 2

Dispatches == 1 .. NumDispatch

----------------------------------------------------------------------------
(* Strings *)

Whitespace == {" ", "\n"}

RECURSIVE Join(_, _)
Join(strs, sep) ==
    IF Len(strs) = 0 THEN <<>>
    ELSE IF Len(strs) = 1 THEN strs[1]
    ELSE strs[1] \o sep \o Join(Tail(strs), sep)

RECURSIVE TrimLeft(_)
TrimLeft(s) ==
    IF Len(s) > 0 /\ s[1] \in Whitespace THEN TrimLeft(Tail(s)) ELSE s

RECURSIVE TrimRight(_)
TrimRight(s) ==
    IF Len(s) > 0 /\ s[Len(s)] \in Whitespace
    THEN TrimRight(SubSeq(s, 1, Len(s) - 1))
    ELSE s

TrimSpace(s) == TrimRight(TrimLeft(s))

Contains(s, sub) ==
    \E i \in 1 .. (Len(s) + 1) :
        /\ i + Len(sub) - 1 <= Len(s)
        /\ SubSeq(s, i, i + Len(sub) - 1) = sub

----------------------------------------------------------------------------
(* message.Message: role, declared finish reason, content parts *)

Assistant == "assistant"
ToolRole == "tool"
UserRole == "user"
Roles == {Assistant, ToolRole, UserRole}

FinishReasonNone == ""
FinishReasonEndTurn == "end_turn"
FinishReasonToolUse == "tool_use"
FinishReasonCanceled == "canceled"
FinishReasonError == "error"
FinishReasons == {FinishReasonNone, FinishReasonEndTurn, FinishReasonToolUse,
                  FinishReasonCanceled, FinishReasonError}

TextContent(t) ==
    [type |-> "TextContent", text |-> t, name |-> <<>>, isError |-> FALSE]
ReasoningPart(t) ==
    [type |-> "ReasoningContent", text |-> t, name |-> <<>>, isError |-> FALSE]
ToolCallPart(n) ==
    [type |-> "ToolCall", text |-> <<>>, name |-> n, isError |-> FALSE]
ToolResult(n, c, e) ==
    [type |-> "ToolResult", text |-> c, name |-> n, isError |-> e]

PartsOfType(m, t) == SelectSeq(m.parts, LAMBDA p : p.type = t)

\* Content(): the first text part, "" without one
Content(m) ==
    LET ps == PartsOfType(m, "TextContent")
    IN  IF Len(ps) = 0 THEN <<>> ELSE ps[1].text

\* ReasoningContent().Thinking: the first reasoning part, "" without one
ReasoningContent(m) ==
    LET ps == PartsOfType(m, "ReasoningContent")
    IN  IF Len(ps) = 0 THEN <<>> ELSE ps[1].text

ToolCalls(m) == PartsOfType(m, "ToolCall")

FinishReason(m) == m.finish

----------------------------------------------------------------------------
(* tools.ToolResponse and the errors Run returns *)

TextResponse(t) == [kind |-> "text", text |-> t]
TextErrorResponse(t) == [kind |-> "cerr", text |-> t]
HardError(t) == [kind |-> "hard", text |-> t]
NoOutcome == [kind |-> "none", text |-> <<>>]

ErrInterrupted == <<"Sub-agent execution was interrupted">>
ErrEncountered == <<"Sub-agent encountered an error">>
ErrNoValidResponse == <<"Sub-agent did not produce a valid response">>
ErrTimeout == <<"sub-agent timed out after 30 minutes">>
ErrNoOutput(agentName) ==
    <<"Sub-agent '">> \o agentName \o <<"' completed but produced no output. ">>
ErrNoRecovery(agentName) ==
    <<"Sub-agent '">> \o agentName
        \o <<"' failed to provide any response despite multiple recovery attempts. ">>

----------------------------------------------------------------------------
(* Response recovery: Run, lines 242-380 *)

\* (mutant) a message without finish reason, tool calls and text is taken to
\* have ended its turn
InferFinishReason_EndTurnDefault(m) ==
    IF FinishReason(m) = FinishReasonNone
    THEN IF Len(ToolCalls(m)) > 0 THEN FinishReasonToolUse
         ELSE FinishReasonEndTurn
    ELSE FinishReason(m)

\* (mutant) direct text is looked at before the tool calls
InferFinishReason_TextFirst(m) ==
    IF FinishReason(m) = FinishReasonNone
    THEN IF Content(m) # <<>> THEN FinishReasonEndTurn
         ELSE IF Len(ToolCalls(m)) > 0 THEN FinishReasonToolUse
         ELSE FinishReasonCanceled
    ELSE FinishReason(m)

\* lines 243-265: the finish reason used, inferred when none is declared
InferFinishReason(m) ==
    IF FinishReason(m) = FinishReasonNone
    THEN IF Len(ToolCalls(m)) > 0 THEN FinishReasonToolUse
         ELSE IF Content(m) # <<>> THEN FinishReasonEndTurn
         ELSE FinishReasonCanceled
    ELSE FinishReason(m)

\* lines 268-275
FinishReasonResponse(fr) ==
    TextErrorResponse(IF fr = FinishReasonError THEN ErrEncountered
                      ELSE ErrInterrupted)

\* (mutant) without the check tr.Content != ""
UsefulToolResults_AnyContent(m) ==
    SelectSeq(m.parts, LAMBDA p : p.type = "ToolResult" /\ ~p.isError)

\* lines 281-287: the tool results a tool-role message can answer with
UsefulToolResults(m) ==
    SelectSeq(m.parts,
              LAMBDA p : p.type = "ToolResult" /\ ~p.isError /\ p.text # <<>>)

\* (mutant) the parts are scanned whatever the non-assistant role
NonAssistantResponse_AnyRole(m) ==
    IF Len(UsefulToolResults(m)) > 0
    THEN TextResponse(UsefulToolResults(m)[1].text)
    ELSE TextErrorResponse(ErrNoValidResponse)

\* lines 277-290
NonAssistantResponse(m) ==
    IF m.role = ToolRole /\ Len(UsefulToolResults(m)) > 0
    THEN TextResponse(UsefulToolResults(m)[1].text)
    ELSE TextErrorResponse(ErrNoValidResponse)

\* lines 309-319
ToolOutputs(m) ==
    LET trs == SelectSeq(m.parts,
                         LAMBDA p : p.type = "ToolResult" /\ ~p.isError /\ p.text # <<>>)
    IN  [i \in 1 .. Len(trs) |-> trs[i].name \o <<": ">> \o trs[i].text]

ErrorOutputs(m) ==
    LET trs == SelectSeq(m.parts,
                         LAMBDA p : p.type = "ToolResult" /\ p.isError /\ p.text # <<>>)
    IN  [i \in 1 .. Len(trs) |-> trs[i].name \o <<" error: ">> \o trs[i].text]

\* lines 329-334
TextParts(m) ==
    LET tps == SelectSeq(m.parts, LAMBDA p : p.type = "TextContent" /\ p.text # <<>>)
    IN  [i \in 1 .. Len(tps) |-> tps[i].text]

\* lines 341-347
ToolCallSummary(m) ==
    LET toolNames == [i \in 1 .. Len(ToolCalls(m)) |-> ToolCalls(m)[i].name]
    IN  <<"Sub-agent executed ", ToString(Len(toolNames)), " tools (">>
            \o Join(toolNames, <<", ">>)
            \o <<") but produced no text output. The agent may have completed its task through tool actions.">>

\* (mutant) tool errors are tried before tool outputs
EmptyContentRecovery_ErrorsFirst(m) ==
    IF ReasoningContent(m) # <<>>
    THEN [found |-> TRUE,
          contentStr |-> <<"Sub-agent analysis: ">> \o ReasoningContent(m)]
    ELSE IF Len(ErrorOutputs(m)) > 0
    THEN [found |-> TRUE,
          contentStr |-> <<"Sub-agent encountered issues:", "\n">>
                             \o Join(ErrorOutputs(m), <<"\n">>)]
    ELSE IF Len(ToolOutputs(m)) > 0
    THEN [found |-> TRUE,
          contentStr |-> <<"Sub-agent completed task with findings:", "\n">>
                             \o Join(ToolOutputs(m), <<"\n">>)]
    ELSE IF Len(TextParts(m)) > 0
    THEN [found |-> TRUE, contentStr |-> Join(TextParts(m), <<" ">>)]
    ELSE IF Len(ToolCalls(m)) > 0
    THEN [found |-> TRUE, contentStr |-> ToolCallSummary(m)]
    ELSE [found |-> FALSE, contentStr |-> <<>>]

\* (mutant) tool results are tried before the reasoning text
EmptyContentRecovery_ResultsFirst(m) ==
    IF Len(ToolOutputs(m)) > 0
    THEN [found |-> TRUE,
          contentStr |-> <<"Sub-agent completed task with findings:", "\n">>
                             \o Join(ToolOutputs(m), <<"\n">>)]
    ELSE IF ReasoningContent(m) # <<>>
    THEN [found |-> TRUE,
          contentStr |-> <<"Sub-agent analysis: ">> \o ReasoningContent(m)]
    ELSE IF Len(ErrorOutputs(m)) > 0
    THEN [found |-> TRUE,
          contentStr |-> <<"Sub-agent encountered issues:", "\n">>
                             \o Join(ErrorOutputs(m), <<"\n">>)]
    ELSE IF Len(TextParts(m)) > 0
    THEN [found |-> TRUE, contentStr |-> Join(TextParts(m), <<" ">>)]
    ELSE IF Len(ToolCalls(m)) > 0
    THEN [found |-> TRUE, contentStr |-> ToolCallSummary(m)]
    ELSE [found |-> FALSE, contentStr |-> <<>>]

\* lines 302-366: the strategies tried on empty content, in order
EmptyContentRecovery(m) ==
    IF ReasoningContent(m) # <<>>
    THEN [found |-> TRUE,
          contentStr |-> <<"Sub-agent analysis: ">> \o ReasoningContent(m)]
    ELSE IF Len(ToolOutputs(m)) > 0
    THEN [found |-> TRUE,
          contentStr |-> <<"Sub-agent completed task with findings:", "\n">>
                             \o Join(ToolOutputs(m), <<"\n">>)]
    ELSE IF Len(ErrorOutputs(m)) > 0
    THEN [found |-> TRUE,
          contentStr |-> <<"Sub-agent encountered issues:", "\n">>
                             \o Join(ErrorOutputs(m), <<"\n">>)]
    ELSE IF Len(TextParts(m)) > 0
    THEN [found |-> TRUE, contentStr |-> Join(TextParts(m), <<" ">>)]
    ELSE IF Len(ToolCalls(m)) > 0
    THEN [found |-> TRUE, contentStr |-> ToolCallSummary(m)]
    ELSE [found |-> FALSE, contentStr |-> <<>>]

\* (mutant) the recovery strategies run even when the content is not empty
AssistantRecovery_AlwaysRecovers(m, agentName) ==
    LET r == EmptyContentRecovery(m)
    IN  IF r.found /\ TrimSpace(r.contentStr) # <<>>
        THEN [returned |-> FALSE, resp |-> NoOutcome, contentStr |-> r.contentStr]
        ELSE IF Content(m) # <<>>
        THEN [returned |-> FALSE, resp |-> NoOutcome, contentStr |-> Content(m)]
        ELSE [returned |-> TRUE,
              resp |-> TextErrorResponse(ErrNoOutput(<<agentName>>)),
              contentStr |-> <<>>]

\* (mutant) what the strategies recovered is not looked at again
AssistantRecovery_AcceptsBlank(m, agentName) ==
    IF Content(m) # <<>>
    THEN [returned |-> FALSE, resp |-> NoOutcome, contentStr |-> Content(m)]
    ELSE LET r == EmptyContentRecovery(m)
         IN  IF ~r.found
             THEN [returned |-> TRUE,
                   resp |-> TextErrorResponse(ErrNoOutput(<<agentName>>)),
                   contentStr |-> <<>>]
             ELSE [returned |-> FALSE, resp |-> NoOutcome,
                   contentStr |-> r.contentStr]

\* lines 292-380: an assistant message's text, or the controlled error
AssistantRecovery(m, agentName) ==
    IF Content(m) # <<>>
    THEN [returned |-> FALSE, resp |-> NoOutcome, contentStr |-> Content(m)]
    ELSE LET r == EmptyContentRecovery(m)
         IN  IF ~r.found
             THEN [returned |-> TRUE,
                   resp |-> TextErrorResponse(ErrNoOutput(<<agentName>>)),
                   contentStr |-> <<>>]
             ELSE IF r.contentStr = <<>> \/ TrimSpace(r.contentStr) = <<>>
             THEN [returned |-> TRUE,
                   resp |-> TextErrorResponse(ErrNoRecovery(<<agentName>>)),
                   contentStr |-> <<>>]
             ELSE [returned |-> FALSE, resp |-> NoOutcome,
                   contentStr |-> r.contentStr]

\* (mutant) the role is checked before the finish reason
Recover_RoleFirst(m, agentName) ==
    LET fr == InferFinishReason(m)
    IN  IF m.role # Assistant
        THEN [returned |-> TRUE, resp |-> NonAssistantResponse(m),
              contentStr |-> <<>>]
        ELSE IF fr \in {FinishReasonCanceled, FinishReasonError}
        THEN [returned |-> TRUE, resp |-> FinishReasonResponse(fr),
              contentStr |-> <<>>]
        ELSE AssistantRecovery(m, agentName)

\* lines 242-380: Run returns resp here (returned), or goes on to the cost
\* roll-up with contentStr
Recover(m, agentName) ==
    LET fr == InferFinishReason(m)
    IN  IF fr \in {FinishReasonCanceled, FinishReasonError}
        THEN [returned |-> TRUE, resp |-> FinishReasonResponse(fr),
              contentStr |-> <<>>]
        ELSE IF m.role # Assistant
        THEN [returned |-> TRUE, resp |-> NonAssistantResponse(m),
              contentStr |-> <<>>]
        ELSE AssistantRecovery(m, agentName)

----------------------------------------------------------------------------
(* The environment: calls, agent results, the session store *)

CallerSessionID == "session"

\* (mutant) every tool call of the caller has the same ID
CallID_Shared(d) == "call1"

\* call.ID of Run call d, which is the ID of its child session
CallID(d) == "call" \o ToString(d)

SessionIDs == {CallerSessionID} \cup {CallID(d) : d \in Dispatches}

NoSession == [exists |-> FALSE, parentSessionID |-> "", cost |-> 0]

\* the names an agent service can be registered under: the owner of the map
\* makes a sub-agent of every configured agent but the top-level "coder"
AgentNames == {"task", "reviewer"}

\* (mutant) the top-level agent is among the sub-agents
AgentsAtConstruction_WithCoder == {"task", "coder"}

\* the keys the map had when NewAgentTool stored it (the map is shared with
\* its owner)
AgentsAtConstruction == {"task"}

\* lines 163-166: the keys of the map in the order one range loop yields them
KeyOrders(S) ==
    {s \in [1 .. Cardinality(S) -> S] :
        \A i, j \in 1 .. Cardinality(S) : i # j => s[i] # s[j]}

SeqsUpTo(S, n) == UNION {[1 .. k -> S] : k \in 0 .. n}

PartAlphabet ==
    {TextContent(t) : t \in {<<>>, <<"X">>, <<" ">>}}
        \cup {ReasoningPart(<<"thought">>), ToolCallPart(<<"view">>)}
        \cup {ToolResult(<<"grep">>, <<"X">>, FALSE),
              ToolResult(<<"grep">>, <<>>, FALSE),
              ToolResult(<<"bash">>, <<"boom">>, TRUE)}

AllMessages ==
    [role : Roles, finish : FinishReasons, parts : SeqsUpTo(PartAlphabet, MaxParts)]

\* the messages sibling dispatches are run with: one per way Run ends
SiblingMessages ==
    {[role |-> Assistant, finish |-> FinishReasonEndTurn,
      parts |-> <<TextContent(<<"X">>)>>],
     [role |-> Assistant, finish |-> FinishReasonCanceled, parts |-> <<>>],
     [role |-> ToolRole, finish |-> FinishReasonEndTurn,
      parts |-> <<ToolResult(<<"grep">>, <<"X">>, FALSE)>>]}

\* a longer message whose only text is blank, with a tool call after it
BlankTextMessages ==
    {[role |-> Assistant, finish |-> FinishReasonEndTurn,
      parts |-> <<TextContent(<<>>), TextContent(<<" ">>),
                  ToolCallPart(<<"view">>)>>]}

Messages(sc) ==
    IF sc = "engine" THEN AllMessages \cup BlankTextMessages ELSE SiblingMessages

NoMessage == [role |-> "", finish |-> FinishReasonNone, parts |-> <<>>]

\* AgentEvent: the one value the completion channel carries
AgentEvents(sc) ==
    {[error |-> "", message |-> m] : m \in Messages(sc)}
        \cup {[error |-> "agent failed", message |-> NoMessage]}

\* call.Input as parsed, and the ids tools.GetContextValues(ctx) finds
\* (ctxDone: whether ctx was already done when Run was called)
ValidCall == [parseOK |-> TRUE, prompt |-> "p", agentName |-> "task",
              sessionID |-> CallerSessionID, messageID |-> "msg",
              ctxDone |-> FALSE]

CallInputs(sc) ==
    IF sc \in {"engine", "calls"}
    THEN [parseOK : BOOLEAN, prompt : {"", "p"},
          agentName : {"", "task", "reviewer", "ghost", "coder"},
          sessionID : {"", CallerSessionID}, messageID : {"", "msg"},
          ctxDone : {FALSE}]
    ELSE {ValidCall, [ValidCall EXCEPT !.prompt = ""]}

\* what a session store call made with ctx can answer: nil, a failure of the
\* store, or ctx's own error once ctx is done
StoreErrors == {"", "store failure"}
                   \cup (IF ctxDone THEN {"context canceled"} ELSE {})

----------------------------------------------------------------------------
(* Run *)

\* fmt's %v of a []string: the elements between brackets, a space apart
FormatSlice(strs) ==
    <<"[">> \o Join([i \in 1 .. Len(strs) |-> <<strs[i]>>], <<" ">>) \o <<"]">>

\* (mutant) the agent name is checked before the prompt
Validate_AgentNameFirst(in, availableAgents) ==
    IF ~in.parseOK
    THEN TextErrorResponse(<<"error parsing parameters: ", "invalid JSON">>)
    ELSE IF in.agentName = ""
    THEN TextErrorResponse(
             <<"agent_name is required. Check the tool description for available agents.">>)
    ELSE IF in.agentName \notin agents
    THEN TextErrorResponse(<<"agent '", in.agentName,
                             "' not found. Available agents: ">>
                               \o FormatSlice(availableAgents))
    ELSE IF in.prompt = ""
    THEN TextErrorResponse(<<"prompt is required">>)
    ELSE IF in.sessionID = "" \/ in.messageID = ""
    THEN HardError(<<"session_id and message_id are required">>)
    ELSE NoOutcome

\* (mutant) an empty prompt is returned as an error of Run
Validate_PromptHardError(in, availableAgents) ==
    IF ~in.parseOK
    THEN TextErrorResponse(<<"error parsing parameters: ", "invalid JSON">>)
    ELSE IF in.prompt = ""
    THEN HardError(<<"prompt is required">>)
    ELSE IF in.agentName = ""
    THEN TextErrorResponse(
             <<"agent_name is required. Check the tool description for available agents.">>)
    ELSE IF in.agentName \notin agents
    THEN TextErrorResponse(<<"agent '", in.agentName,
                             "' not found. Available agents: ">>
                               \o FormatSlice(availableAgents))
    ELSE IF in.sessionID = "" \/ in.messageID = ""
    THEN HardError(<<"session_id and message_id are required">>)
    ELSE NoOutcome

\* (mutant) the lookup error lists the keys the map had at construction
Validate_ConstructionSnapshot(in, availableAgents) ==
    IF ~in.parseOK
    THEN TextErrorResponse(<<"error parsing parameters: ", "invalid JSON">>)
    ELSE IF in.prompt = ""
    THEN TextErrorResponse(<<"prompt is required">>)
    ELSE IF in.agentName = ""
    THEN TextErrorResponse(
             <<"agent_name is required. Check the tool description for available agents.">>)
    ELSE IF in.agentName \notin agents
    THEN TextErrorResponse(<<"agent '", in.agentName,
                             "' not found. Available agents: ">>
                               \o FormatSlice(CHOOSE o \in KeyOrders(AgentsAtConstruction) : TRUE))
    ELSE IF in.sessionID = "" \/ in.messageID = ""
    THEN HardError(<<"session_id and message_id are required">>)
    ELSE NoOutcome

\* (mutant) an empty agent name stands for "task" (the older Run of prompt/subagent.go)
Validate_DefaultsToTask(in, availableAgents) ==
    IF ~in.parseOK
    THEN TextErrorResponse(<<"error parsing parameters: ", "invalid JSON">>)
    ELSE IF in.prompt = ""
    THEN TextErrorResponse(<<"prompt is required">>)
    ELSE IF (IF in.agentName = "" THEN "task" ELSE in.agentName) \notin agents
    THEN TextErrorResponse(<<"agent '", IF in.agentName = "" THEN "task" ELSE in.agentName,
                             "' not found. Available agents: ">>
                               \o FormatSlice(availableAgents))
    ELSE IF in.sessionID = "" \/ in.messageID = ""
    THEN HardError(<<"session_id and message_id are required">>)
    ELSE NoOutcome

\* (mutant) an empty agent name goes to the lookup like any other
Validate_NoAgentNameCheck(in, availableAgents) ==
    IF ~in.parseOK
    THEN TextErrorResponse(<<"error parsing parameters: ", "invalid JSON">>)
    ELSE IF in.prompt = ""
    THEN TextErrorResponse(<<"prompt is required">>)
    ELSE IF in.agentName \notin agents
    THEN TextErrorResponse(<<"agent '", in.agentName,
                             "' not found. Available agents: ">>
                               \o FormatSlice(availableAgents))
    ELSE IF in.sessionID = "" \/ in.messageID = ""
    THEN HardError(<<"session_id and message_id are required">>)
    ELSE NoOutcome

\* (mutant) the caller's IDs are looked at before the agent is looked up
Validate_IDsBeforeLookup(in, availableAgents) ==
    IF ~in.parseOK
    THEN TextErrorResponse(<<"error parsing parameters: ", "invalid JSON">>)
    ELSE IF in.prompt = ""
    THEN TextErrorResponse(<<"prompt is required">>)
    ELSE IF in.agentName = ""
    THEN TextErrorResponse(
             <<"agent_name is required. Check the tool description for available agents.">>)
    ELSE IF in.sessionID = "" \/ in.messageID = ""
    THEN HardError(<<"session_id and message_id are required">>)
    ELSE IF in.agentName \notin agents
    THEN TextErrorResponse(<<"agent '", in.agentName,
                             "' not found. Available agents: ">>
                               \o FormatSlice(availableAgents))
    ELSE NoOutcome

\* lines 147-178: the response of the first failing check, NoOutcome when
\* every check passes
Validate(in, availableAgents) ==
    IF ~in.parseOK
    THEN TextErrorResponse(<<"error parsing parameters: ", "invalid JSON">>)
    ELSE IF in.prompt = ""
    THEN TextErrorResponse(<<"prompt is required">>)
    ELSE IF in.agentName = ""
    THEN TextErrorResponse(
             <<"agent_name is required. Check the tool description for available agents.">>)
    ELSE IF in.agentName \notin agents
    THEN TextErrorResponse(<<"agent '", in.agentName,
                             "' not found. Available agents: ">>
                               \o FormatSlice(availableAgents))
    ELSE IF in.sessionID = "" \/ in.messageID = ""
    THEN HardError(<<"session_id and message_id are required">>)
    ELSE NoOutcome

\* a return statement of Run
Return(d, resp) ==
    /\ pc' = [pc EXCEPT ![d] = "done"]
    /\ outcome' = [outcome EXCEPT ![d] = resp]
    /\ nReturns' = [nReturns EXCEPT ![d] = @ + 1]

\* defer cancel() (line 199) as Run returns
DeferCancel(d) ==
    subAgentCtx' = [subAgentCtx EXCEPT ![d] =
                       IF @ = "deadline exceeded" THEN @ ELSE "canceled"]

\* lines 147-212: the checks, the child session, the start of the agent
Start(d) ==
    /\ pc[d] = "call"
    /\ \E in \in CallInputs(scenario), availableAgents \in KeyOrders(agents),
          createErr \in StoreErrors, runErr \in {"", "session busy"} :
          /\ call' = [call EXCEPT ![d] = [in EXCEPT !.ctxDone = ctxDone]]
          /\ IF Validate(in, availableAgents) # NoOutcome
             THEN /\ Return(d, Validate(in, availableAgents))
                  /\ UNCHANGED <<sessions, subAgentCtx, agent, err, nRuns>>
             ELSE IF createErr # ""
             THEN /\ Return(d, HardError(<<"error creating session: ", createErr>>))
                  /\ err' = [err EXCEPT ![d] = createErr]
                  /\ UNCHANGED <<sessions, subAgentCtx, agent, nRuns>>
             ELSE /\ err' = [err EXCEPT ![d] = runErr]
                  /\ nRuns' = [nRuns EXCEPT ![d] = @ + 1]
                  /\ sessions' = [sessions EXCEPT ![CallID(d)] =
                                      [exists |-> TRUE,
                                       parentSessionID |-> in.sessionID,
                                       cost |-> 0]]
                  /\ IF runErr # ""
                     THEN /\ Return(d, HardError(<<"error generating agent: ", runErr>>))
                          /\ DeferCancel(d)
                          /\ UNCHANGED agent
                     ELSE /\ pc' = [pc EXCEPT ![d] = "wait"]
                          /\ subAgentCtx' = [subAgentCtx EXCEPT ![d] = "live"]
                          /\ agent' = [agent EXCEPT ![d] = "running"]
                          /\ UNCHANGED <<outcome, nReturns>>
    /\ UNCHANGED <<configVars, scenario, agents, finishReason,
                   ctxDone, startCost, doneCh, response, contentStr,
                   updatedSession, parentSession, nSaves>>

\* (mutant) result.Error is not looked at: the message goes to the recovery
Receive_IgnoresResultError(d) ==
    /\ pc[d] = "wait"
    /\ Len(doneCh[d]) > 0
    /\ LET result == Head(doneCh[d])
           rec == Recover(result.message, call[d].agentName)
       IN  /\ doneCh' = [doneCh EXCEPT ![d] = Tail(@)]
           /\ IF FALSE
              THEN /\ Return(d, HardError(<<"error generating agent: ", result.error>>))
                   /\ DeferCancel(d)
                   /\ UNCHANGED <<response, finishReason, contentStr>>
              ELSE /\ response' = [response EXCEPT ![d] = result.message]
                   /\ finishReason' = [finishReason EXCEPT ![d] =
                                           InferFinishReason(result.message)]
                   /\ IF rec.returned
                      THEN /\ Return(d, rec.resp)
                           /\ DeferCancel(d)
                           /\ UNCHANGED contentStr
                      ELSE /\ pc' = [pc EXCEPT ![d] = "getChild"]
                           /\ contentStr' = [contentStr EXCEPT ![d] = rec.contentStr]
                           /\ UNCHANGED <<outcome, nReturns, subAgentCtx>>
    /\ UNCHANGED <<configVars, nRuns, scenario, agents, err,
                   ctxDone, sessions, startCost, call, agent,
                   updatedSession, parentSession, nSaves>>

\* (mutant) the value is read and stays on the channel
Receive_LeavesValue(d) ==
    /\ pc[d] = "wait"
    /\ Len(doneCh[d]) > 0
    /\ LET result == Head(doneCh[d])
           rec == Recover(result.message, call[d].agentName)
       IN  /\ UNCHANGED doneCh
           /\ IF result.error # ""
              THEN /\ Return(d, HardError(<<"error generating agent: ", result.error>>))
                   /\ DeferCancel(d)
                   /\ UNCHANGED <<response, finishReason, contentStr>>
              ELSE /\ response' = [response EXCEPT ![d] = result.message]
                   /\ finishReason' = [finishReason EXCEPT ![d] =
                                           InferFinishReason(result.message)]
                   /\ IF rec.returned
                      THEN /\ Return(d, rec.resp)
                           /\ DeferCancel(d)
                           /\ UNCHANGED contentStr
                      ELSE /\ pc' = [pc EXCEPT ![d] = "getChild"]
                           /\ contentStr' = [contentStr EXCEPT ![d] = rec.contentStr]
                           /\ UNCHANGED <<outcome, nReturns, subAgentCtx>>
    /\ UNCHANGED <<configVars, nRuns, scenario, agents, err,
                   ctxDone, sessions, startCost, call, agent,
                   updatedSession, parentSession, nSaves>>

\* lines 216-221 and 226-380: the channel's case of the select, then the
\* recovery of the message received
Receive(d) ==
    /\ pc[d] = "wait"
    /\ Len(doneCh[d]) > 0
    /\ LET result == Head(doneCh[d])
           rec == Recover(result.message, call[d].agentName)
       IN  /\ doneCh' = [doneCh EXCEPT ![d] = Tail(@)]
           /\ IF result.error # ""
              THEN /\ Return(d, HardError(<<"error generating agent: ", result.error>>))
                   /\ DeferCancel(d)
                   /\ UNCHANGED <<response, finishReason, contentStr>>
              ELSE /\ response' = [response EXCEPT ![d] = result.message]
                   /\ finishReason' = [finishReason EXCEPT ![d] =
                                           InferFinishReason(result.message)]
                   /\ IF rec.returned
                      THEN /\ Return(d, rec.resp)
                           /\ DeferCancel(d)
                           /\ UNCHANGED contentStr
                      ELSE /\ pc' = [pc EXCEPT ![d] = "getChild"]
                           /\ contentStr' = [contentStr EXCEPT ![d] = rec.contentStr]
                           /\ UNCHANGED <<outcome, nReturns, subAgentCtx>>
    /\ UNCHANGED <<configVars, nRuns, scenario, agents, err,
                   ctxDone, sessions, startCost, call, agent,
                   updatedSession, parentSession, nSaves>>

\* (mutant) the channel is read without a select: result := <-done
Timeout_NoContextCase(d) ==
    /\ FALSE
    /\ UNCHANGED vars

\* (mutant) the child's cost is rolled up on the way out of a timeout
Timeout_RollsUpCost(d) ==
    /\ pc[d] = "wait"
    /\ subAgentCtx[d] = "deadline exceeded"
    /\ Return(d, HardError(ErrTimeout))
    /\ sessions' = [sessions EXCEPT ![call[d].sessionID].cost =
                        @ + sessions[CallID(d)].cost]
    /\ nSaves' = [nSaves EXCEPT ![d] = @ + 1]
    /\ UNCHANGED <<configVars, nRuns, scenario, agents, finishReason, err,
                   ctxDone, startCost, call, agent, doneCh,
                   subAgentCtx, response, contentStr, updatedSession,
                   parentSession>>

\* (mutant) Run gives up waiting whether or not the ceiling has passed
Timeout_AnyTime(d) ==
    /\ pc[d] = "wait"
    /\ Return(d, HardError(ErrTimeout))
    /\ UNCHANGED <<configVars, nRuns, scenario, agents, finishReason, err,
                   ctxDone, sessions, startCost, call, agent, doneCh,
                   subAgentCtx, response, contentStr, updatedSession,
                   parentSession, nSaves>>

\* lines 222-223: the context's case of the select
Timeout(d) ==
    /\ pc[d] = "wait"
    /\ subAgentCtx[d] = "deadline exceeded"
    /\ Return(d, HardError(ErrTimeout))
    /\ UNCHANGED <<configVars, nRuns, scenario, agents, finishReason, err,
                   ctxDone, sessions, startCost, call, agent, doneCh,
                   subAgentCtx, response, contentStr, updatedSession,
                   parentSession, nSaves>>

\* lines 382-385
GetChild(d) ==
    /\ pc[d] = "getChild"
    /\ \E e \in StoreErrors :
          /\ err' = [err EXCEPT ![d] = e]
          /\ IF e # ""
             THEN /\ Return(d, HardError(<<"error getting session: ", e>>))
                  /\ DeferCancel(d)
                  /\ UNCHANGED updatedSession
             ELSE /\ updatedSession' = [updatedSession EXCEPT ![d] = sessions[CallID(d)]]
                  /\ pc' = [pc EXCEPT ![d] = "getParent"]
                  /\ UNCHANGED <<outcome, nReturns, subAgentCtx>>
    /\ UNCHANGED <<configVars, nRuns, scenario, agents, finishReason,
                   ctxDone, sessions, startCost, call, agent, doneCh,
                   response, contentStr, parentSession, nSaves>>

\* lines 386-389
GetParent(d) ==
    /\ pc[d] = "getParent"
    /\ \E e \in StoreErrors :
          /\ err' = [err EXCEPT ![d] = e]
          /\ IF e # ""
             THEN /\ Return(d, HardError(<<"error getting parent session: ", e>>))
                  /\ DeferCancel(d)
                  /\ UNCHANGED parentSession
             ELSE /\ parentSession' =
                         [parentSession EXCEPT ![d] = sessions[call[d].sessionID]]
                  /\ pc' = [pc EXCEPT ![d] = "save"]
                  /\ UNCHANGED <<outcome, nReturns, subAgentCtx>>
    /\ UNCHANGED <<configVars, nRuns, scenario, agents, finishReason,
                   ctxDone, sessions, startCost, call, agent, doneCh,
                   response, contentStr, updatedSession, nSaves>>

\* (mutant) the child's cost is added twice
AddCost_Twice(parent, child) ==
    [parent EXCEPT !.cost = @ + child.cost + child.cost]

\* line 391: parentSession.Cost += updatedSession.Cost
AddCost(parent, child) == [parent EXCEPT !.cost = @ + child.cost]

\* (mutant) a failed Save is not looked at
SaveParent_SwallowsError(d) ==
    /\ pc[d] = "save"
    /\ \E e \in StoreErrors :
          /\ err' = [err EXCEPT ![d] = e]
          /\ parentSession' = [parentSession EXCEPT ![d] =
                                   AddCost(@, updatedSession[d])]
          /\ IF e # ""
             THEN UNCHANGED <<sessions, nSaves>>
             ELSE /\ sessions' = [sessions EXCEPT ![call[d].sessionID] =
                                      parentSession'[d]]
                  /\ nSaves' = [nSaves EXCEPT ![d] = @ + 1]
          /\ Return(d, TextResponse(contentStr[d]))
          /\ DeferCancel(d)
    /\ UNCHANGED <<configVars, nRuns, scenario, agents, finishReason, ctxDone, startCost, call,
                   agent, doneCh, response, contentStr, updatedSession>>

\* lines 391-397
SaveParent(d) ==
    /\ pc[d] = "save"
    /\ \E e \in StoreErrors :
          /\ err' = [err EXCEPT ![d] = e]
          /\ parentSession' = [parentSession EXCEPT ![d] =
                                   AddCost(@, updatedSession[d])]
          /\ IF e # ""
             THEN /\ Return(d, HardError(<<"error saving parent session: ", e>>))
                  /\ UNCHANGED <<sessions, nSaves>>
             ELSE /\ sessions' = [sessions EXCEPT ![call[d].sessionID] =
                                      parentSession'[d]]
                  /\ nSaves' = [nSaves EXCEPT ![d] = @ + 1]
                  /\ Return(d, TextResponse(contentStr[d]))
          /\ DeferCancel(d)
    /\ UNCHANGED <<configVars, nRuns, scenario, agents, finishReason,
                   ctxDone, startCost, call, agent, doneCh, response,
                   contentStr, updatedSession>>

----------------------------------------------------------------------------
(* The agent execution, time and the caller *)

\* the running agent adds to its own session's cost
AgentProgress(d) ==
    /\ agent[d] \in {"running", "overdue"}
    /\ pc[d] = "wait"
    /\ sessions[CallID(d)].cost < MaxChildCost
    /\ sessions' = [sessions EXCEPT ![CallID(d)].cost = @ + 1]
    /\ UNCHANGED <<configVars, nRuns, scenario, agents, finishReason, err,
                   ctxDone, startCost, pc, call, agent, doneCh,
                   subAgentCtx, response, contentStr, updatedSession,
                   parentSession, outcome, nReturns, nSaves>>

\* the agent sends its one value on the completion channel, in time or once
\* its context is past the deadline (a send after Run returned has no receiver)
AgentDeliver(d) ==
    /\ agent[d] \in {"running", "overdue"}
    /\ pc[d] = "wait"
    /\ \E ev \in AgentEvents(scenario) :
          doneCh' = [doneCh EXCEPT ![d] = Append(@, ev)]
    /\ agent' = [agent EXCEPT ![d] =
                     IF @ = "overdue" THEN "finished late" ELSE "finished"]
    /\ UNCHANGED <<configVars, nRuns, scenario, agents, finishReason, err,
                   ctxDone, sessions, startCost, pc, call,
                   subAgentCtx, response, contentStr, updatedSession,
                   parentSession, outcome, nReturns, nSaves>>

\* line 198: the 30 minutes of context.WithTimeout pass
CeilingExpires(d) ==
    /\ pc[d] = "wait"
    /\ subAgentCtx[d] = "live"
    /\ subAgentCtx' = [subAgentCtx EXCEPT ![d] = "deadline exceeded"]
    /\ agent' = [agent EXCEPT ![d] = IF @ = "running" THEN "overdue" ELSE @]
    /\ UNCHANGED <<configVars, nRuns, scenario, agents, finishReason, err,
                   ctxDone, sessions, startCost, pc, call,
                   doneCh, response, contentStr, updatedSession, parentSession,
                   outcome, nReturns, nSaves>>

\* the owner of the map registers one more agent service between Run calls
RegisterAgent ==
    /\ \E d \in Dispatches : pc[d] = "call"
    /\ \E name \in AgentNames \ agents : agents' = agents \cup {name}
    /\ UNCHANGED <<configVars, nRuns, scenario, ctxDone, sessions, startCost, pc, call, agent,
                   doneCh, subAgentCtx, err, response, finishReason,
                   contentStr, updatedSession, parentSession, outcome,
                   nReturns, nSaves>>

\* the caller's context is cancelled or reaches its deadline while a Run
\* call is past its checks
CallerCancel ==
    /\ ~ctxDone
    /\ \E d \in Dispatches : pc[d] \notin {"unused", "call", "done"}
    /\ ctxDone' = TRUE
    /\ UNCHANGED <<configVars, nRuns, scenario, agents, finishReason, err,
                   sessions, startCost, pc, call, agent, doneCh,
                   subAgentCtx, response, contentStr, updatedSession,
                   parentSession, outcome, nReturns, nSaves>>

----------------------------------------------------------------------------
(* Agent definition files: parseAgentMarkdown and ConvertDefinitionToAgent *)

\* a Go slice: nil, or a backing array with its items
NilSlice == [isNil |-> TRUE, items |-> <<>>]

MakeSlice(s) == [isNil |-> FALSE, items |-> s]

\* append on a nil slice: nil as long as nothing is appended
AppendAll(s) == IF s = <<>> THEN NilSlice ELSE MakeSlice(s)

\* the items a header writes for one of its lists, whitespace included
RawItems == {<<"view">>, <<" ", "grep", " ">>, <<" ">>}

ItemLists(n) ==
    {s \in SeqsUpTo(RawItems, n) :
        \A i, j \in 1 .. Len(s) : i # j => s[i] # s[j]}

\* one list-valued key of the header: absent, a string (raw holds the
\* pieces between its commas, so the string is never ""), or a YAML sequence
Absent == [form |-> "absent", raw |-> <<>>]

StringForm(r) == [form |-> "string", raw |-> r]

ListForm(r) == [form |-> "list", raw |-> r]

FieldValues ==
    {Absent}
        \cup {StringForm(r) : r \in ItemLists(MaxItems) \ {<<>>}}
        \cup {ListForm(r) : r \in ItemLists(MaxItems)}

\* the YAML between the delimiters; valid is FALSE for text that is no YAML
\* mapping
Header(valid, name, description, tools, mcp, lsp) ==
    [valid |-> valid, name |-> name, description |-> description,
     tools |-> tools, mcp_servers |-> mcp, lsp_servers |-> lsp]

\* a file's content: parts is len(strings.SplitN(content, "---", 3)), body
\* is what follows the second delimiter
FileContent(parts, header, body) ==
    [parts |-> parts, header |-> header, body |-> body]

ListKeys == {"tools", "mcp_servers", "lsp_servers"}

\* yaml.Unmarshal into agentDefString (lines 108-116): every list-valued key
\* is a string field, which a YAML sequence cannot fill
UnmarshalStringsOK(h) ==
    h.valid /\ \A k \in ListKeys : h[k].form # "list"

\* yaml.Unmarshal into AgentDefinition (lines 164-167): every list-valued
\* key is a []string field, which a YAML string cannot fill
UnmarshalListsOK(h) ==
    h.valid /\ \A k \in ListKeys : h[k].form # "string"

\* lines 119-125: strings.Split on ",", TrimSpace, empty items left out
RECURSIVE SplitTrim(_)
SplitTrim(raw) ==
    IF raw = <<>> THEN <<>>
    ELSE LET item == TrimSpace(Head(raw))
         IN  (IF item # <<>> THEN <<item>> ELSE <<>>) \o SplitTrim(Tail(raw))

\* lines 118-147: a key of the string form; "" when the key is absent
FromString(f) ==
    IF f.form = "string" THEN AppendAll(SplitTrim(f.raw)) ELSE NilSlice

\* a []string field as yaml.Unmarshal fills it: the items as written
FromList(f) ==
    IF f.form = "list" THEN MakeSlice(f.raw) ELSE NilSlice

AgentDefinition(name, description, tools, mcp, lsp, systemPrompt) ==
    [Name |-> name, Description |-> description, Tools |-> tools,
     MCPServers |-> mcp, LSPServers |-> lsp, SystemPrompt |-> systemPrompt,
     FilePath |-> "", IsPriority |-> FALSE]

NoDefinition ==
    AgentDefinition("", "", NilSlice, NilSlice, NilSlice, <<>>)

ParseError(text) == [err |-> text, agent |-> NoDefinition]

ParseOK(def) == [err |-> <<>>, agent |-> def]

ErrMissingFrontmatter == <<"invalid agent file format: missing YAML frontmatter">>

ErrYAML == <<"failed to parse YAML frontmatter: ", "yaml: unmarshal errors">>

ErrNameRequired == <<"agent name is required">>

ErrDescriptionRequired == <<"agent description is required">>

ErrSystemPromptRequired == <<"agent system prompt is required">>

\* (mutant) the description is looked at before the name
RequiredFields_DescriptionFirst(def) ==
    IF def.Description = "" THEN ParseError(ErrDescriptionRequired)
    ELSE IF def.Name = "" THEN ParseError(ErrNameRequired)
    ELSE IF def.SystemPrompt = <<>> THEN ParseError(ErrSystemPromptRequired)
    ELSE ParseOK(def)

\* lines 149-162 and 169-192: the required fields, in the code's order
RequiredFields(def) ==
    IF def.Name = "" THEN ParseError(ErrNameRequired)
    ELSE IF def.Description = "" THEN ParseError(ErrDescriptionRequired)
    ELSE IF def.SystemPrompt = <<>> THEN ParseError(ErrSystemPromptRequired)
    ELSE ParseOK(def)

\* lines 100-195
parseAgentMarkdown(c) ==
    LET h == c.header
        systemPrompt == TrimSpace(c.body)
    IN  IF c.parts < 3 THEN ParseError(ErrMissingFrontmatter)
        ELSE IF UnmarshalStringsOK(h) /\ h.tools.form = "string"
        THEN RequiredFields(AgentDefinition(h.name, h.description,
                                FromString(h.tools), FromString(h.mcp_servers),
                                FromString(h.lsp_servers), systemPrompt))
        ELSE IF ~UnmarshalListsOK(h) THEN ParseError(ErrYAML)
        ELSE RequiredFields(AgentDefinition(h.name, h.description,
                                FromList(h.tools), FromList(h.mcp_servers),
                                FromList(h.lsp_servers), systemPrompt))

\* a Go map[string][]string: nil, or its entries
NilMap == [isNil |-> TRUE, entries |-> <<>>]

\* lines 213-216: make(map), then one nil entry for every server
ServerMap(servers) ==
    [isNil |-> FALSE,
     entries |-> [s \in {servers[i] : i \in 1 .. Len(servers)} |-> NilSlice]]

ModelTypes == {"task", "large"}

\* (mutant) the lists are copied as they are, empty ones included
ConvertDefinitionToAgent_CopiesEmptyLists(def, modelType) ==
    [ID |-> def.Name,
     Name |-> def.Name,
     Description |-> def.Description,
     Model |-> modelType,
     AllowedTools |-> def.Tools,
     AllowedMCP |-> ServerMap(def.MCPServers.items),
     AllowedLSP |-> def.LSPServers]

\* lines 197-228
ConvertDefinitionToAgent(def, modelType) ==
    [ID |-> def.Name,
     Name |-> def.Name,
     Description |-> def.Description,
     Model |-> modelType,
     AllowedTools |-> IF Len(def.Tools.items) > 0 THEN def.Tools ELSE NilSlice,
     AllowedMCP |-> IF Len(def.MCPServers.items) > 0
                    THEN ServerMap(def.MCPServers.items) ELSE NilMap,
     AllowedLSP |-> IF Len(def.LSPServers.items) > 0
                    THEN def.LSPServers ELSE NilSlice]

NotParsed == [err |-> <<"not parsed">>, agent |-> NoDefinition]

\* the model type passed to ConvertDefinitionToAgent, and what it returned
NotConverted ==
    [modelType |-> "",
     agent |-> [ID |-> "", Name |-> "", Description |-> "", Model |-> "",
                AllowedTools |-> NilSlice, AllowedMCP |-> NilMap,
                AllowedLSP |-> NilSlice]]

Bodies == {<<>>, <<" ", "\n">>, <<"You are X.">>, <<"\n", "You are X.", " ">>}

\* every combination of the forms and items of the three lists, in a file
\* that is otherwise complete
ListInputs ==
    {FileContent(3, Header(TRUE, "reviewer", "Reviews code", t, m, l),
                 <<"\n", "You are X.", " ">>) :
        t \in FieldValues, m \in FieldValues, l \in FieldValues}

\* every combination of delimiters, header text, required fields and body
FieldInputs ==
    {FileContent(p, Header(v, n, desc, t, Absent, Absent), b) :
        p \in 1 .. 3, v \in BOOLEAN, n \in {"", "reviewer"},
        desc \in {"", "Reviews code"}, b \in Bodies,
        t \in {Absent, StringForm(<<<<"view">>>>), ListForm(<<<<"view">>>>)}}

\* the file is read and parsed
ParseFile ==
    /\ parsed = NotParsed
    /\ parsed' = parseAgentMarkdown(content)
    /\ UNCHANGED <<runVars, authVars, loaderVars, toolVars, content, converted>>

\* the definition is converted for the agent system
ConvertAgent ==
    /\ parsed # NotParsed
    /\ parsed.err = <<>>
    /\ converted = NotConverted
    /\ \E modelType \in ModelTypes :
          converted' = [modelType |-> modelType,
                        agent |-> ConvertDefinitionToAgent(parsed.agent,
                                                           modelType)]
    /\ UNCHANGED <<runVars, authVars, loaderVars, toolVars, content, parsed>>

----------------------------------------------------------------------------
(* The agent registry: LoadAgentDefinitions and loadAgentsFromDir *)

\* a complete file, and what it declares
ValidFile(name, description, tools) ==
    [kind |-> "md",
     content |-> FileContent(3, Header(TRUE, name, description, tools,
                                       Absent, Absent), <<"You are X.">>)]

\* the entries a directory can have: complete files (two of them declare
\* "reviewer"), a file without a description, a complete file with
\* mcp_servers as a string, a file that cannot be opened, and an entry that
\* is a directory or has no .md suffix
DirEntries ==
    {ValidFile("reviewer", "Reviews code", StringForm(<<<<"view">>>>)),
     ValidFile("reviewer", "Reviews tests", Absent),
     ValidFile("tester", "Runs tests", ListForm(<<<<"view">>>>)),
     ValidFile("tester", "", Absent),
     [kind |-> "md",
      content |-> FileContent(3, Header(TRUE, "helper", "Helps", Absent,
                                        StringForm(<<<<"view">>>>), Absent),
                              <<"You are X.">>)],
     [kind |-> "unreadable md", content |-> FileContent(1, Header(FALSE, "", "", Absent, Absent, Absent), <<>>)],
     [kind |-> "skipped", content |-> FileContent(1, Header(FALSE, "", "", Absent, Absent, Absent), <<>>)]}

\* a directory as os.Stat and os.ReadDir find it; ReadDir returns the
\* entries sorted by file name, which is their order here
Directories ==
    {[state |-> "missing", entries |-> <<>>],
     [state |-> "unreadable", entries |-> <<>>]}
        \cup {[state |-> "ok", entries |-> e] :
                e \in {s \in SeqsUpTo(DirEntries, MaxFiles) :
                          \A i, j \in 1 .. Len(s) : i # j => s[i] # s[j]}}

\* lines 85-98: the file is opened, read and parsed
loadAgentFromFile(entry) ==
    IF entry.kind = "unreadable md"
    THEN ParseError(<<"failed to open agent file: ", "permission denied">>)
    ELSE parseAgentMarkdown(entry.content)

NextDir(at) == IF at = "user" THEN "project" ELSE "return"

DirOf(at) == IF at = "user" THEN fs.user ELSE fs.project

\* (mutant) an entry of the map is only replaced by a priority definition
MayReplace_FirstLoadedWins(existing, exists, isPriority) ==
    ~exists \/ (isPriority /\ ~existing.IsPriority)

\* (mutant) an entry of the map is never replaced
MayReplace_NeverReplaces(existing, exists, isPriority) ==
    ~exists

\* line 77: the condition under which agents[agent.Name] is assigned
MayReplace(existing, exists, isPriority) ==
    ~exists \/ isPriority \/ ~existing.IsPriority

\* lines 30-32, 40-41 and 51-58: a directory is looked up and listed
EnterDir ==
    /\ loader.at \in {"user", "project"}
    /\ loader.i = 0
    /\ LET dir == DirOf(loader.at)
       IN  loader' = IF \/ loader.at = "user" /\ ~fs.home
                        \/ dir.state # "ok"
                        \/ dir.entries = <<>>
                     THEN [at |-> NextDir(loader.at), i |-> 0]
                     ELSE [at |-> loader.at, i |-> 1]
    /\ UNCHANGED <<runVars, authVars, parseVars, toolVars, fs, definitions, loadErr>>

\* lines 60-80: one entry of the directory
LoadEntry ==
    /\ loader.at \in {"user", "project"}
    /\ loader.i >= 1
    /\ LET dir == DirOf(loader.at)
           entry == dir.entries[loader.i]
           isPriority == loader.at = "project"
           loaded == loadAgentFromFile(entry)
           def == [loaded.agent EXCEPT !.FilePath = <<loader.at, loader.i>>,
                                       !.IsPriority = isPriority]
           exists == def.Name \in DOMAIN definitions
       IN  /\ definitions' =
                 IF entry.kind = "skipped" \/ loaded.err # <<>> THEN definitions
                 ELSE IF MayReplace(IF exists THEN definitions[def.Name]
                                    ELSE NoDefinition, exists, isPriority)
                 THEN [n \in DOMAIN definitions \cup {def.Name} |->
                          IF n = def.Name THEN def ELSE definitions[n]]
                 ELSE definitions
           /\ loader' = IF loader.i = Len(dir.entries)
                        THEN [at |-> NextDir(loader.at), i |-> 0]
                        ELSE [at |-> loader.at, i |-> loader.i + 1]
    /\ UNCHANGED <<runVars, authVars, parseVars, toolVars, fs, loadErr>>

\* (mutant) the error of reading the project directory is returned
ReturnDefinitions_ReturnsDirError ==
    /\ loader.at = "return"
    /\ loadErr = <<"not returned">>
    /\ loadErr' = IF fs.project.state = "unreadable"
                  THEN <<"failed to read agent directory">> ELSE <<>>
    /\ UNCHANGED <<runVars, authVars, parseVars, toolVars, fs, definitions, loader>>

\* line 46: return agents, nil
ReturnDefinitions ==
    /\ loader.at = "return"
    /\ loadErr = <<"not returned">>
    /\ loadErr' = <<>>
    /\ UNCHANGED <<runVars, authVars, parseVars, toolVars, fs, definitions, loader>>

----------------------------------------------------------------------------
(* The tool's metadata and the child session's title: Info, FormatAgentName *)

\* Here a Go string is the sequence of its characters.  The characters in
\* use, in the order of their codes
Ascii == <<" ", "-", ":", "A", "B", "C", "D", "E", "F", "G", "H", "I", "J", "K", "L", "M", "N", "O", "P", "Q", "R", "S", "T", "U", "V", "W", "X", "Y", "Z", "a", "b", "c", "d", "e", "f", "g", "h", "i", "j", "k", "l", "m", "n", "o", "p", "q", "r", "s", "t", "u", "v", "w", "x", "y", "z">>

Code(c) == CHOOSE i \in 1 .. Len(Ascii) : Ascii[i] = c

Lower == <<"a", "b", "c", "d", "e", "f", "g", "h", "i", "j", "k", "l", "m", "n", "o", "p", "q", "r", "s", "t", "u", "v", "w", "x", "y", "z">>

Upper == <<"A", "B", "C", "D", "E", "F", "G", "H", "I", "J", "K", "L", "M", "N", "O", "P", "Q", "R", "S", "T", "U", "V", "W", "X", "Y", "Z">>

\* strings.ToUpper on one character
ToUpper(c) ==
    IF \E i \in 1 .. Len(Lower) : Lower[i] = c
    THEN Upper[CHOOSE i \in 1 .. Len(Lower) : Lower[i] = c]
    ELSE c

\* s < t for Go strings
RECURSIVE StringLess(_, _)
StringLess(s, t) ==
    IF t = <<>> THEN FALSE
    ELSE IF s = <<>> THEN TRUE
    ELSE IF Head(s) # Head(t) THEN Code(Head(s)) < Code(Head(t))
    ELSE StringLess(Tail(s), Tail(t))

\* sort.Strings, by insertion
RECURSIVE Insert(_, _)
Insert(s, sorted) ==
    IF sorted = <<>> THEN <<s>>
    ELSE IF StringLess(Head(sorted), s)
    THEN <<Head(sorted)>> \o Insert(s, Tail(sorted))
    ELSE <<s>> \o sorted

RECURSIVE SortStrings(_)
SortStrings(strs) ==
    IF strs = <<>> THEN <<>> ELSE Insert(Head(strs), SortStrings(Tail(strs)))

\* strings.ReplaceAll(s, "-", " ")
ReplaceHyphens(s) == [i \in 1 .. Len(s) |-> IF s[i] = "-" THEN " " ELSE s[i]]

\* strings.Fields: the maximal runs of non-space characters
RECURSIVE Fields(_)
Fields(s) ==
    IF s = <<>> THEN <<>>
    ELSE IF Head(s) = " " THEN Fields(Tail(s))
    ELSE LET ends == {i \in 1 .. Len(s) : i = Len(s) \/ s[i + 1] = " "}
             n == CHOOSE i \in ends : \A j \in ends : i <= j
         IN  <<SubSeq(s, 1, n)>> \o Fields(SubSeq(s, n + 1, Len(s)))

\* lines 400-428
FormatAgentName(name) ==
    IF name = <<"t", "a", "s", "k">> THEN <<"T", "a", "s", "k", " ", "A", "g", "e", "n", "t">>
    ELSE IF name = <<"c", "o", "d", "e", "-", "r", "e", "v", "i", "e", "w", "e", "r">> THEN <<"C", "o", "d", "e", " ", "R", "e", "v", "i", "e", "w", "e", "r">>
    ELSE IF name = <<"d", "e", "b", "u", "g", "g", "e", "r">> THEN <<"D", "e", "b", "u", "g", "g", "e", "r">>
    ELSE IF name = <<"t", "e", "s", "t", "-", "r", "u", "n", "n", "e", "r">> THEN <<"T", "e", "s", "t", " ", "R", "u", "n", "n", "e", "r">>
    ELSE IF name = <<"r", "e", "f", "a", "c", "t", "o", "r", "e", "r">> THEN <<"R", "e", "f", "a", "c", "t", "o", "r", "e", "r">>
    ELSE IF name = <<>> THEN <<"A", "g", "e", "n", "t">>
    ELSE LET words == Fields(ReplaceHyphens(name))
         IN  Join([i \in 1 .. Len(words) |->
                      <<ToUpper(words[i][1])>> \o Tail(words[i])], <<" ">>)

\* (mutant) the title is always made from the agent's ID
SessionTitle_IgnoresConfig(agentName, configs) ==
    FormatAgentName(agentName)

\* lines 180-189: the title of the child session
SessionTitle(agentName, configs) ==
    IF agentName \in DOMAIN configs /\ configs[agentName].Name # <<>>
    THEN configs[agentName].Name
    ELSE FormatAgentName(agentName)

\* config.Agent, as far as the tool reads it
AgentConfig(name, description, disabled) ==
    [Name |-> name, Description |-> description, Disabled |-> disabled]

ConfigValues ==
    {AgentConfig(<<>>, <<>>, FALSE),
     AgentConfig(<<"M", "y", " ", "A", "g", "e", "n", "t">>, <<"D", "o", "e", "s", " ", "x">>, FALSE),
     AgentConfig(<<>>, <<"D", "o", "e", "s", " ", "x">>, TRUE)}

\* the names the configuration map can have as keys
ConfigNames == {<<"c", "o", "d", "e", "r">>, <<"t", "a", "s", "k">>, <<"a">>, <<"a", "-", "b">>}

ConfigMaps ==
    UNION {[names -> ConfigValues] : names \in SUBSET ConfigNames}

\* the agent IDs a title is made for: the built-in ones, "", and every
\* string of up to MaxNameLen of these characters
AgentIDs ==
    {<<"t", "a", "s", "k">>, <<"c", "o", "d", "e", "-", "r", "e", "v", "i", "e", "w", "e", "r">>, <<"d", "e", "b", "u", "g", "g", "e", "r">>, <<"t", "e", "s", "t", "-", "r", "u", "n", "n", "e", "r">>, <<"r", "e", "f", "a", "c", "t", "o", "r", "e", "r">>}
        \cup SeqsUpTo({"a", "B", "-", " "}, MaxNameLen)

DefaultDescription == <<"S", "p", "e", "c", "i", "a", "l", "i", "z", "e", "d", " ", "a", "g", "e", "n", "t", " ", "f", "o", "r", " ", "v", "a", "r", "i", "o", "u", "s", " ", "t", "a", "s", "k", "s">>

\* line 119: fmt.Sprintf("- %s: %s", name, description)
AgentLine(name, description) ==
    <<"-", " ">> \o name \o <<":", " ">> \o description

\* lines 104-120: the loop over the map, in the order the map gives its keys
RECURSIVE AgentList(_, _)
AgentList(order, configs) ==
    IF order = <<>> THEN <<>>
    ELSE LET name == Head(order)
             config == configs[name]
             description == IF config.Description = <<>>
                            THEN DefaultDescription ELSE config.Description
         IN  (IF name = <<"c", "o", "d", "e", "r">> \/ config.Disabled THEN <<>>
              ELSE <<AgentLine(name, description)>>)
                 \o AgentList(Tail(order), configs)

\* agentToolDescriptionTemplate: the text before {agents}, the placeholder,
\* the text after it
Template == <<"Launch a new agent ... have access to:\n", "{agents}", "\n...">>

\* strings.Replace(template, "{agents}", text, 1)
ReplaceAgents(text) == <<Template[1]>> \o text \o <<Template[3]>>

\* (mutant) the list is joined in the order the map gave its keys
Info_Unsorted(order, configs) ==
    [Name |-> "agent",
     Description |-> ReplaceAgents(Join(AgentList(order, configs), <<"\n">>)),
     Required |-> <<"prompt", "agent_name">>]

\* lines 102-145
Info(order, configs) ==
    [Name |-> "agent",
     Description |->
         ReplaceAgents(Join(SortStrings(AgentList(order, configs)), <<"\n">>)),
     Required |-> <<"prompt", "agent_name">>]

NoInfo == [configs |-> <<>>, info |-> Info(<<>>, <<>>), calls |-> 0]

NoTitle == [agentName |-> <<>>, title |-> <<>>, resolved |-> FALSE]

\* b.Info() is called
InfoCall ==
    /\ ~sessionTitle.resolved
    /\ toolInfo.calls < MaxInfoCalls
    /\ \E order \in KeyOrders(DOMAIN agentConfigs) :
          toolInfo' = [configs |-> agentConfigs,
                       info |-> Info(order, agentConfigs),
                       calls |-> toolInfo.calls + 1]
    /\ UNCHANGED <<runVars, authVars, parseVars, loaderVars, agentConfigs, sessionTitle>>

\* the owner of the configuration map enables or disables an agent between
\* two calls of the tool
SetDisabled ==
    /\ ~sessionTitle.resolved
    /\ toolInfo.calls = 1
    /\ \E name \in DOMAIN agentConfigs :
          agentConfigs' = [agentConfigs EXCEPT ![name].Disabled = ~@]
    /\ UNCHANGED <<runVars, authVars, parseVars, loaderVars, toolInfo, sessionTitle>>

\* lines 180-189 of Run, for one agent ID
ResolveTitle ==
    /\ ~sessionTitle.resolved
    /\ toolInfo.calls = 0
    /\ \E agentName \in AgentIDs :
          sessionTitle' = [agentName |-> agentName,
                           title |-> SessionTitle(agentName, agentConfigs),
                           resolved |-> TRUE]
    /\ UNCHANGED <<runVars, authVars, parseVars, loaderVars, agentConfigs, toolInfo>>

----------------------------------------------------------------------------
(* Credential storage: AuthManager (internal/auth/storage.go).  Here a Go *)
(* string is a TLA+ string.  A *OAuthCredentials is <<>> (nil) or <<c>>.   *)
(* The auth file is missing, unreadable, corrupt (not the JSON of an       *)
(* object) or a JSON object: a function from the keys it has to values.    *)

\* how many calls each caller of the AuthManager makes
MaxAuthCalls == 2

\* lines 19-25
OAuthCredentials(type, access, refresh, expires, scope) ==
    [Type |-> type, Access |-> access, Refresh |-> refresh,
     Expires |-> expires, Scope |-> scope]

\* &OAuthCredentials{}
ZeroCredentials == OAuthCredentials("", "", "", 0, "")

\* &AuthData{} (lines 28-31)
EmptyAuthData == [ClaudeSub |-> <<>>, GithubCopilot |-> <<>>]

\* json.MarshalIndent (line 85) with the tags of lines 19-31: a nil pointer
\* and an empty scope are left out
Marshal(authData) ==
    LET object(c) ==
            LET keys == {"type", "access", "refresh", "expires"}
                            \cup (IF c.Scope = "" THEN {} ELSE {"scope"})
            IN  [k \in keys |->
                    CASE k = "type" -> c.Type
                      [] k = "access" -> c.Access
                      [] k = "refresh" -> c.Refresh
                      [] k = "expires" -> c.Expires
                      [] k = "scope" -> c.Scope]
        keys == (IF authData.ClaudeSub = <<>> THEN {} ELSE {"claudesub"})
                    \cup (IF authData.GithubCopilot = <<>> THEN {}
                          ELSE {"github-copilot"})
    IN  [k \in keys |-> IF k = "claudesub" THEN object(authData.ClaudeSub[1])
                        ELSE object(authData.GithubCopilot[1])]

\* json.Unmarshal (line 67) into AuthData: a key the object does not have
\* leaves the field at its zero value
Unmarshal(json) ==
    LET field(o, k, zero) == IF k \in DOMAIN o THEN o[k] ELSE zero
        pointer(k) ==
            IF k \in DOMAIN json
            THEN <<OAuthCredentials(field(json[k], "type", ""),
                                    field(json[k], "access", ""),
                                    field(json[k], "refresh", ""),
                                    field(json[k], "expires", 0),
                                    field(json[k], "scope", ""))>>
            ELSE <<>>
    IN  [ClaudeSub |-> pointer("claudesub"),
         GithubCopilot |-> pointer("github-copilot")]

NoFile == [state |-> "missing", json |-> <<>>]

\* lines 52-72, under the read lock
LoadAuthData(file) ==
    IF file.state = "missing" THEN [err |-> "", authData |-> EmptyAuthData]
    ELSE IF file.state = "unreadable"
    THEN [err |-> "failed to read auth file", authData |-> EmptyAuthData]
    ELSE IF file.state = "corrupt"
    THEN [err |-> "failed to parse auth data", authData |-> EmptyAuthData]
    ELSE [err |-> "", authData |-> Unmarshal(file.json)]

\* lines 75-98, under the write lock: the file written, or the error
SaveAuthData(authData, file, canWrite) ==
    IF ~canWrite THEN [err |-> "failed to write auth file", file |-> file]
    ELSE [err |-> "", file |-> [state |-> "json", json |-> Marshal(authData)]]

\* lines 282-291
GetGithubCopilotCredentials(file) ==
    LET l == LoadAuthData(file)
    IN  IF l.err # "" THEN [err |-> "failed to load auth data", creds |-> <<>>]
        ELSE IF l.authData.GithubCopilot = <<>>
        THEN [err |-> "no github-copilot credentials found", creds |-> <<>>]
        ELSE [err |-> "", creds |-> l.authData.GithubCopilot]

\* lines 339-342
HasGithubCopilotAuth(file) == GetGithubCopilotCredentials(file).err = ""

\* the GitHub Copilot credentials to change: those loaded, or new ones
\* (lines 228-230, 266-268)
CopilotOrZero(authData) ==
    IF authData.GithubCopilot = <<>> THEN ZeroCredentials
    ELSE authData.GithubCopilot[1]

\* lines 109-115: what StoreClaudeSubCredentials does to the loaded data
StoreClaudeSubCredentials(authData, tokenResp) ==
    [authData EXCEPT !.ClaudeSub =
        <<OAuthCredentials("oauth", tokenResp.Access, tokenResp.Refresh,
                           tokenResp.Expires, tokenResp.Scope)>>]

\* line 183
ClearClaudeSubCredentials(authData) == [authData EXCEPT !.ClaudeSub = <<>>]

\* lines 228-234
StoreGithubCopilotRefresh(authData, githubOAuthToken) ==
    [authData EXCEPT !.GithubCopilot =
        <<[CopilotOrZero(authData) EXCEPT !.Type = "oauth",
                                          !.Refresh = githubOAuthToken]>>]

\* lines 266-273
UpdateGithubCopilotAccess(authData, token, expiresAt) ==
    [authData EXCEPT !.GithubCopilot =
        <<[CopilotOrZero(authData) EXCEPT !.Type = "oauth",
                                          !.Access = token,
                                          !.Expires = expiresAt]>>]

\* (mutant) clearing GitHub Copilot writes an empty AuthData
ClearGithubCopilotCredentials_ClearsAll(authData) == EmptyAuthData

\* line 330
ClearGithubCopilotCredentials(authData) ==
    [authData EXCEPT !.GithubCopilot = <<>>]

ClaudeSubOps == {"StoreClaudeSubCredentials", "ClearClaudeSubCredentials"}

GithubCopilotOps ==
    {"StoreGithubCopilotRefresh", "UpdateGithubCopilotAccess",
     "ClearGithubCopilotCredentials"}

\* the arguments of a call, as credentials: the token response of
\* StoreClaudeSubCredentials, the GitHub token of StoreGithubCopilotRefresh
AuthArgs(op) ==
    IF op = "StoreClaudeSubCredentials"
    THEN {OAuthCredentials("oauth", "a1", "c1", 1, scope) : scope \in {"", "s"}}
    ELSE IF op = "StoreGithubCopilotRefresh"
    THEN {OAuthCredentials("", "", t, 0, "") : t \in {"g1", "g2"}}
    ELSE {ZeroCredentials}

\* a caller of the AuthManager that has made no call yet
NoAuthCall(ops) ==
    [ops |-> ops, pc |-> "idle", op |-> "", arg |-> ZeroCredentials,
     authData |-> EmptyAuthData, err |-> "", calls |-> 0,
     last |-> [op |-> "", arg |-> ZeroCredentials], before |-> NoFile]

\* the auth files a call can find
AuthFiles ==
    {NoFile, [state |-> "unreadable", json |-> <<>>],
     [state |-> "corrupt", json |-> <<>>]}
        \cup {[state |-> "json", json |-> Marshal(d)] :
                d \in [ClaudeSub : {<<>>, <<OAuthCredentials("oauth", "a0", "c0", 1, "s")>>},
                       GithubCopilot : {<<>>, <<OAuthCredentials("oauth", "t0", "g0", 1, "")>>}]}
        \cup {[state |-> "json",
               json |-> [k \in {"github-copilot"} |-> [j \in {"access"} |-> "t0"]]]}

\* the call returns err to its caller
AuthReturn(c, e) ==
    [c EXCEPT !.pc = "idle", !.err = e,
              !.last = IF e = "" THEN [op |-> c.op, arg |-> c.arg] ELSE @]

\* a call of one of the five functions up to the end of its first
\* LoadAuthData (lines 101-104, 178-181, 223-226, 326-329); for
\* UpdateGithubCopilotAccess up to the token fetched (lines 247-259)
AuthBegin(g) ==
    /\ authCall[g].pc = "idle"
    /\ authCall[g].calls < MaxAuthCalls
    /\ \E op \in authCall[g].ops, fetched \in BOOLEAN : \E arg \in AuthArgs(op) :
          LET c == [authCall[g] EXCEPT !.op = op, !.arg = arg,
                                       !.calls = @ + 1, !.before = authFile,
                                       !.authData = EmptyAuthData, !.err = ""]
              l == LoadAuthData(authFile)
              creds == GetGithubCopilotCredentials(authFile)
          IN  authCall' = [authCall EXCEPT ![g] =
                  IF op = "UpdateGithubCopilotAccess"
                  THEN IF creds.err # ""
                       THEN AuthReturn(c, "no github-copilot credentials to update")
                       ELSE IF creds.creds[1].Refresh = ""
                       THEN AuthReturn(c, "no github oauth token available")
                       ELSE IF ~fetched
                       THEN AuthReturn(c, "failed to fetch copilot token")
                       ELSE [c EXCEPT !.pc = "load",
                                      !.arg = OAuthCredentials("", "t1", "", 2, "")]
                  ELSE IF l.err # ""
                  THEN AuthReturn(c, "failed to load auth data")
                  ELSE [c EXCEPT !.pc = "save", !.authData = l.authData]]
    /\ UNCHANGED <<runVars, parseVars, loaderVars, toolVars, authFile, writable>>

\* lines 262-265: UpdateGithubCopilotAccess loads the data again
AuthLoad(g) ==
    /\ authCall[g].pc = "load"
    /\ LET l == LoadAuthData(authFile)
       IN  authCall' = [authCall EXCEPT ![g] =
               IF l.err # "" THEN AuthReturn(@, "failed to load auth data")
               ELSE [@ EXCEPT !.pc = "save", !.authData = l.authData]]
    /\ UNCHANGED <<runVars, parseVars, loaderVars, toolVars, authFile, writable>>

\* the rest of the call: the loaded data is changed and saved (lines
\* 106-122, 183-189, 228-242, 266-278, 330-335)
AuthSave(g) ==
    /\ authCall[g].pc = "save"
    /\ LET c == authCall[g]
           authData ==
               CASE c.op = "StoreClaudeSubCredentials" ->
                        StoreClaudeSubCredentials(c.authData, c.arg)
                 [] c.op = "ClearClaudeSubCredentials" ->
                        ClearClaudeSubCredentials(c.authData)
                 [] c.op = "StoreGithubCopilotRefresh" ->
                        StoreGithubCopilotRefresh(c.authData, c.arg.Refresh)
                 [] c.op = "UpdateGithubCopilotAccess" ->
                        UpdateGithubCopilotAccess(c.authData, c.arg.Access,
                                                  c.arg.Expires)
                 [] c.op = "ClearGithubCopilotCredentials" ->
                        ClearGithubCopilotCredentials(c.authData)
           s == SaveAuthData(authData, authFile, writable)
       IN  /\ authFile' = s.file
           /\ authCall' = [authCall EXCEPT ![g] =
                  AuthReturn([c EXCEPT !.authData = authData],
                             IF s.err = "" THEN ""
                             ELSE IF c.op \in {"ClearClaudeSubCredentials",
                                               "ClearGithubCopilotCredentials"}
                             THEN "failed to save auth data after clearing credentials"
                             ELSE "failed to save credentials")]
    /\ UNCHANGED <<runVars, parseVars, loaderVars, toolVars, writable>>

----------------------------------------------------------------------------
(* Specifications *)

NoCall == [parseOK |-> FALSE, prompt |-> "", agentName |-> "",
           sessionID |-> "", messageID |-> "", ctxDone |-> FALSE]

InitWith(sc, active, costs) ==
    /\ scenario = sc
    /\ agents = AgentsAtConstruction
    /\ ctxDone = FALSE
    /\ startCost \in costs
    /\ sessions = [id \in SessionIDs |->
                      IF id = CallerSessionID
                      THEN [exists |-> TRUE, parentSessionID |-> "",
                            cost |-> startCost]
                      ELSE NoSession]
    /\ pc = [d \in Dispatches |-> IF d \in active THEN "call" ELSE "unused"]
    /\ call = [d \in Dispatches |-> NoCall]
    /\ agent = [d \in Dispatches |-> "idle"]
    /\ doneCh = [d \in Dispatches |-> <<>>]
    /\ subAgentCtx = [d \in Dispatches |-> "none"]
    /\ err = [d \in Dispatches |-> ""]
    /\ response = [d \in Dispatches |-> NoMessage]
    /\ finishReason = [d \in Dispatches |-> FinishReasonNone]
    /\ contentStr = [d \in Dispatches |-> <<>>]
    /\ updatedSession = [d \in Dispatches |-> NoSession]
    /\ parentSession = [d \in Dispatches |-> NoSession]
    /\ outcome = [d \in Dispatches |-> NoOutcome]
    /\ nReturns = [d \in Dispatches |-> 0]
    /\ nSaves = [d \in Dispatches |-> 0]
    /\ nRuns = [d \in Dispatches |-> 0]

\* no definition file is being read
ParseIdle ==
    /\ content = FileContent(1, Header(FALSE, "", "", Absent, Absent, Absent), <<>>)
    /\ parsed = NotParsed
    /\ converted = NotConverted

\* LoadAgentDefinitions is not being called
LoaderIdle ==
    /\ fs = [home |-> FALSE,
             user |-> [state |-> "missing", entries |-> <<>>],
             project |-> [state |-> "missing", entries |-> <<>>]]
    /\ definitions = <<>>
    /\ loader = [at |-> "idle", i |-> 0]
    /\ loadErr = <<"not returned">>

\* the tool has no configuration map and has not been asked anything
ToolIdle ==
    /\ agentConfigs = <<>>
    /\ toolInfo = NoInfo
    /\ sessionTitle = NoTitle

\* the AuthManager is not being called
AuthIdle ==
    /\ authFile = NoFile
    /\ writable = TRUE
    /\ authCall = <<>>

ConfigIdle == ParseIdle /\ LoaderIdle /\ ToolIdle /\ AuthIdle

\* sibling dispatches issued concurrently from one caller session
Init == InitWith("siblings", Dispatches, 0 .. MaxStartCost) /\ ConfigIdle

\* one dispatch, over every call input and every agent message, from a
\* caller session that has a cost already
InitEngine == InitWith("engine", {1}, {MaxStartCost}) /\ ConfigIdle

Next ==
    \/ \E d \in Dispatches : Start(d)
    \/ \E d \in Dispatches : Receive(d)
    \/ \E d \in Dispatches : Timeout(d)
    \/ \E d \in Dispatches : GetChild(d)
    \/ \E d \in Dispatches : GetParent(d)
    \/ \E d \in Dispatches : SaveParent(d)
    \/ \E d \in Dispatches : AgentProgress(d)
    \/ \E d \in Dispatches : AgentDeliver(d)
    \/ \E d \in Dispatches : CeilingExpires(d)
    \/ RegisterAgent
    \/ CallerCancel

Spec == Init /\ [][Next]_vars

SpecEngine == InitEngine /\ [][Next]_vars

\* one dispatch, over every call input, with the agent messages of the
\* sibling dispatches
InitCalls == InitWith("calls", {1}, {MaxStartCost}) /\ ConfigIdle

SpecCalls == InitCalls /\ [][Next]_vars

\* two sibling dispatches issued concurrently from one caller session
InitPair == InitWith("siblings", {1, 2}, 0 .. MaxStartCost) /\ ConfigIdle

SpecPair == InitPair /\ [][Next]_vars

\* the Go scheduler runs every runnable Run call and timers fire; nothing
\* makes an agent deliver
Fairness ==
    \A d \in Dispatches :
        /\ WF_vars(Start(d))
        /\ WF_vars(Receive(d))
        /\ WF_vars(Timeout(d))
        /\ WF_vars(GetChild(d))
        /\ WF_vars(GetParent(d))
        /\ WF_vars(SaveParent(d))
        /\ WF_vars(CeilingExpires(d))

\* one dispatch, run fairly
InitFair == InitWith("siblings", {1}, 0 .. MaxStartCost) /\ ConfigIdle

FairSpec == InitFair /\ [][Next]_vars /\ Fairness

\* no dispatch is under way
RunIdle == InitWith("siblings", {}, {0})

\* one definition file, parsed and then converted
InitParse ==
    /\ RunIdle
    /\ AuthIdle
    /\ LoaderIdle
    /\ ToolIdle
    /\ content \in ListInputs \cup FieldInputs
    /\ parsed = NotParsed
    /\ converted = NotConverted

NextParse == ParseFile \/ ConvertAgent

SpecParse == InitParse /\ [][NextParse]_vars

\* one call of LoadAgentDefinitions, over every content of the two
\* directories; without a home directory there is no user directory
InitLoader ==
    /\ RunIdle
    /\ AuthIdle
    /\ ParseIdle
    /\ ToolIdle
    /\ fs \in [home : BOOLEAN, user : Directories, project : Directories]
    /\ ~fs.home => fs.user.state = "missing"
    /\ definitions = <<>>
    /\ loader = [at |-> "user", i |-> 0]
    /\ loadErr = <<"not returned">>

NextLoader == EnterDir \/ LoadEntry \/ ReturnDefinitions

SpecLoader == InitLoader /\ [][NextLoader]_vars

\* one tool, over every configuration map: Info is called, or a title is
\* made
InitTool ==
    /\ RunIdle
    /\ AuthIdle
    /\ ParseIdle
    /\ LoaderIdle
    /\ agentConfigs \in ConfigMaps
    /\ toolInfo = NoInfo
    /\ sessionTitle = NoTitle

NextTool == InfoCall \/ SetDisabled \/ ResolveTitle

SpecTool == InitTool /\ [][NextTool]_vars

\* one caller after another: one AuthManager used sequentially
InitAuth ==
    /\ RunIdle
    /\ ParseIdle
    /\ LoaderIdle
    /\ ToolIdle
    /\ authFile \in AuthFiles
    /\ writable \in BOOLEAN
    /\ authCall = <<NoAuthCall(ClaudeSubOps \cup GithubCopilotOps)>>

NextAuth ==
    \/ \E g \in DOMAIN authCall : AuthBegin(g)
    \/ \E g \in DOMAIN authCall : AuthLoad(g)
    \/ \E g \in DOMAIN authCall : AuthSave(g)

SpecAuth == InitAuth /\ [][NextAuth]_vars

\* two goroutines share one AuthManager, one for each provider
InitAuthConcurrent ==
    /\ RunIdle
    /\ ParseIdle
    /\ LoaderIdle
    /\ ToolIdle
    /\ authFile \in AuthFiles
    /\ writable \in BOOLEAN
    /\ authCall = <<NoAuthCall(ClaudeSubOps), NoAuthCall(GithubCopilotOps)>>

SpecAuthConcurrent == InitAuthConcurrent /\ [][NextAuth]_vars

----------------------------------------------------------------------------
(* Properties *)

Done(d) == pc[d] = "done"

\* Run received a message from the completion channel
Received(d) == response[d] # NoMessage

CallerCost == sessions[CallerSessionID].cost

RECURSIVE SumChildCosts(_)
SumChildCosts(ds) ==
    IF ds = {} THEN 0
    ELSE LET d == CHOOSE x \in ds : TRUE
         IN  sessions[CallID(d)].cost + SumChildCosts(ds \ {d})

\* C1: when every sibling dispatch has succeeded and saved, the caller
\* session's cost is its starting cost plus the sum of the child costs
C1_ParentCostIsSumOfChildren ==
    (\A d \in Dispatches :
        /\ Done(d) /\ outcome[d].kind = "text" /\ nSaves[d] = 1
        /\ sessions[CallID(d)].cost > 0)
        => CallerCost = startCost + SumChildCosts(Dispatches)

\* C2: a Run call returns at most once, a started Run call returns, and one
\* whose agent never delivered returns the timeout error
C2_AlwaysReturnsOnce ==
    /\ [](\A d \in Dispatches :
            /\ nReturns[d] <= 1
            /\ Done(d) <=> nReturns[d] = 1
            /\ Done(d) => outcome[d].kind \in {"text", "cerr", "hard"}
            /\ Done(d) /\ agent[d] = "overdue" => outcome[d] = HardError(ErrTimeout))
    /\ \A d \in Dispatches : (pc[d] \in {"call", "wait"}) ~> Done(d)

C2_Witness ==
    \E d \in Dispatches :
        Done(d) /\ agent[d] = "overdue" /\ outcome[d] = HardError(ErrTimeout)

\* C3: a text response of Run is never empty, and every Run call that is
\* done ended in nonempty text, a nonempty controlled error or a hard error
C3_NeverEmptySuccess ==
    \A d \in Dispatches :
        /\ pc[d] \in {"getChild", "getParent", "save"} => contentStr[d] # <<>>
        /\ Done(d) =>
              /\ outcome[d].kind \in {"text", "cerr", "hard"}
              /\ outcome[d].kind \in {"text", "cerr"} => outcome[d].text # <<>>

C3_Witness ==
    \E d \in Dispatches :
        /\ Done(d) /\ Received(d)
        /\ Content(response[d]) = <<>>
        /\ outcome[d].kind = "text"

\* C4: a dispatch that ended in text or in a controlled error of the
\* recovery has added the child's cost to the caller session and saved it
C4_CostAddedOnEveryOutcome ==
    \A d \in Dispatches :
        Done(d) /\ Received(d) /\ outcome[d].kind \in {"text", "cerr"}
            /\ sessions[CallID(d)].cost > 0
            => nSaves[d] = 1 /\ CallerCost >= startCost + sessions[CallID(d)].cost

\* C5: with one dispatch, the caller's cost is its starting cost until the
\* result is received, and after a text response it is the starting cost
\* plus the child's cost, saved once
C5_AdditiveOnce ==
    \A d \in Dispatches :
        /\ pc[d] \in {"call", "wait"} => CallerCost = startCost
        /\ Done(d) /\ outcome[d].kind = "text" =>
              /\ nSaves[d] = 1
              /\ CallerCost = startCost + sessions[CallID(d)].cost

\* C6: no Run call made with a live context ends with the error of the
\* caller's context
C6_IsolatedFromCallerContext ==
    \A d \in Dispatches :
        Done(d) /\ ~call[d].ctxDone
            => ~Contains(outcome[d].text, <<"context canceled">>)

\* C7 as claimed: a Run call whose execution was still running when the
\* ceiling expired ends in the timeout error and has not saved the caller
\* session
C7_ExceedingCeilingTimesOut ==
    \A d \in Dispatches :
        Done(d) /\ agent[d] \in {"overdue", "finished late"}
            => outcome[d] = HardError(ErrTimeout) /\ nSaves[d] = 0

\* C7: a Run call whose execution ran past the ceiling and delivered nothing
\* before Run returned ends in the timeout error, a hard error, and a Run
\* call that timed out never saved the caller session, whose cost is the
\* starting cost unless a sibling saved
C7_TimeoutLeavesParentCost ==
    \A d \in Dispatches :
        /\ Done(d) /\ agent[d] = "overdue" => outcome[d] = HardError(ErrTimeout)
        /\ Done(d) /\ outcome[d].text = ErrTimeout =>
              /\ outcome[d].kind = "hard"
              /\ nSaves[d] = 0
              /\ (\A e \in Dispatches : nSaves[e] = 0) => CallerCost = startCost

C7_Witness ==
    \E d \in Dispatches :
        /\ Done(d) /\ outcome[d] = HardError(ErrTimeout)
        /\ sessions[CallID(d)].cost > 0
        /\ CallerCost = startCost

\* the finish reason of m is fr, declared, or inferred for want of one
DeclaredOrInferred(m, fr) ==
    \/ m.finish = fr
    \/ /\ m.finish = ""
       /\ fr = FinishReasonCanceled
       /\ \A i \in 1 .. Len(m.parts) : m.parts[i].type # "ToolCall"
       /\ Content(m) = <<>>

\* C8: a message whose finish reason is canceled is answered with the
\* interrupted text and one whose finish reason is error with the
\* encountered-an-error text, as controlled errors, whatever else it holds
C8_CanceledOrErrorFixedText ==
    \A d \in Dispatches :
        Done(d) /\ Received(d) =>
            /\ DeclaredOrInferred(response[d], FinishReasonCanceled)
                   => outcome[d] = TextErrorResponse(ErrInterrupted)
            /\ DeclaredOrInferred(response[d], FinishReasonError)
                   => outcome[d] = TextErrorResponse(ErrEncountered)

C8_Witness ==
    \E d \in Dispatches :
        /\ Done(d) /\ Received(d)
        /\ response[d].finish = ""
        /\ response[d].role = ToolRole
        /\ Len(UsefulToolResults(response[d])) > 0
        /\ outcome[d] = TextErrorResponse(ErrInterrupted)

\* C9 as claimed: a message with no parts is answered with the diagnostic
\* fallback naming the agent (here only for assistant messages that declare
\* neither canceled nor error)
C9_ZeroPartsGiveFallback ==
    \A d \in Dispatches :
        Done(d) /\ Received(d) /\ response[d].parts = <<>>
            /\ response[d].role = Assistant
            /\ response[d].finish \notin {FinishReasonCanceled, FinishReasonError}
            => outcome[d] = TextErrorResponse(ErrNoOutput(<<call[d].agentName>>))

\* C9: a message with no parts is answered with the diagnostic fallback
\* naming the agent when its role is assistant and it declares a finish
\* reason other than canceled and error; with no or a canceled finish reason
\* with the interrupted text, with error with the encountered-an-error text,
\* otherwise with the no-valid-response text
C9_ZeroPartsOutcome ==
    \A d \in Dispatches :
        Done(d) /\ Received(d) /\ response[d].parts = <<>> =>
            /\ outcome[d].kind = "cerr"
            /\ outcome[d].text =
                  IF response[d].finish \in {"", FinishReasonCanceled}
                  THEN ErrInterrupted
                  ELSE IF response[d].finish = FinishReasonError
                  THEN ErrEncountered
                  ELSE IF response[d].role # Assistant
                  THEN ErrNoValidResponse
                  ELSE ErrNoOutput(<<call[d].agentName>>)
            /\ outcome[d].text # <<>>

C9_Witness ==
    \E d \in Dispatches :
        /\ Done(d) /\ Received(d) /\ response[d].parts = <<>>
        /\ outcome[d].kind = "cerr"
        /\ Contains(outcome[d].text, <<call[d].agentName>>)
        /\ Contains(outcome[d].text, <<"' completed but produced no output. ">>)

SuccessfulToolResults(m) ==
    SelectSeq(m.parts, LAMBDA p : p.type = "ToolResult" /\ ~p.isError)

\* m has empty direct content and one successful tool result, with content x
OneSuccessfulToolResult(m, x) ==
    /\ Content(m) = <<>>
    /\ Len(SuccessfulToolResults(m)) = 1
    /\ SuccessfulToolResults(m)[1].text = x
    /\ x # <<>>

\* C10 as claimed: a message with empty direct content and one successful
\* tool result X is answered with text containing X (here only for messages
\* that declare neither canceled nor error, and unless the cost roll-up fails)
C10_ToolResultAlwaysSurfaces ==
    \A d \in Dispatches :
        Done(d) /\ Received(d) /\ outcome[d].kind # "hard"
            /\ OneSuccessfulToolResult(response[d], <<"X">>)
            /\ response[d].finish \notin {FinishReasonCanceled, FinishReasonError}
            => outcome[d].kind = "text" /\ Contains(outcome[d].text, <<"X">>)

\* C10: such a message is answered with text containing X when its finish
\* reason, declared or inferred, is neither canceled nor error and its role
\* is tool, or assistant without reasoning text, unless the cost roll-up
\* fails with a hard error
C10_ToolResultSurfaces ==
    \A d \in Dispatches :
        Done(d) /\ Received(d) /\ outcome[d].kind # "hard"
            /\ OneSuccessfulToolResult(response[d], <<"X">>)
            /\ ~DeclaredOrInferred(response[d], FinishReasonCanceled)
            /\ ~DeclaredOrInferred(response[d], FinishReasonError)
            /\ \/ response[d].role = ToolRole
               \/ /\ response[d].role = Assistant
                  /\ \A i \in 1 .. Len(response[d].parts) :
                        response[d].parts[i].type # "ReasoningContent"
            => outcome[d].kind = "text" /\ Contains(outcome[d].text, <<"X">>)

C10_Witness ==
    \E d \in Dispatches :
        /\ Done(d) /\ Received(d)
        /\ response[d].role = Assistant
        /\ OneSuccessfulToolResult(response[d], <<"X">>)
        /\ outcome[d].kind = "text"
        /\ Contains(outcome[d].text, <<"grep", ": ", "X">>)
        /\ nSaves[d] = 1

HasToolCallRequest(m) ==
    \E i \in 1 .. Len(m.parts) : m.parts[i].type = "ToolCall"

\* C11: the finish reason Run works with is the declared one when one is
\* declared; without one it is tool_use when the message requests a tool
\* call, else end_turn when its direct text is nonempty, else canceled
C11_FinishReasonInference ==
    \A d \in Dispatches :
        Done(d) /\ Received(d) =>
            LET m == response[d]
            IN  /\ m.finish # "" => finishReason[d] = m.finish
                /\ m.finish = "" /\ HasToolCallRequest(m)
                       => finishReason[d] = FinishReasonToolUse
                /\ m.finish = "" /\ ~HasToolCallRequest(m) /\ Content(m) # <<>>
                       => finishReason[d] = FinishReasonEndTurn
                /\ m.finish = "" /\ ~HasToolCallRequest(m) /\ Content(m) = <<>>
                       => finishReason[d] = FinishReasonCanceled

C11_Witness ==
    \E d \in Dispatches :
        /\ Done(d) /\ Received(d)
        /\ response[d].finish = ""
        /\ HasToolCallRequest(response[d])
        /\ Content(response[d]) # <<>>
        /\ finishReason[d] = FinishReasonToolUse

\* part i of m is a successful tool result with content
SuccessfulResultAt(m, i) ==
    /\ m.parts[i].type = "ToolResult"
    /\ ~m.parts[i].isError
    /\ m.parts[i].text # <<>>

HasSuccessfulResult(m) == \E i \in 1 .. Len(m.parts) : SuccessfulResultAt(m, i)

\* Run works with a finish reason of response[d] other than canceled and error
FinishReasonProceeds(d) ==
    finishReason[d] \notin {FinishReasonNone, FinishReasonCanceled, FinishReasonError}

\* C12 as claimed: a message of any role but assistant, with a finish reason
\* other than canceled and error, is answered with the content of one of
\* its successful tool results when it has one, and with the
\* no-valid-response text only when it has none
C12_NonAssistantToolResult ==
    \A d \in Dispatches :
        Done(d) /\ Received(d) /\ FinishReasonProceeds(d)
            /\ response[d].role # Assistant
            => IF HasSuccessfulResult(response[d])
               THEN /\ outcome[d].kind = "text"
                    /\ \E i \in 1 .. Len(response[d].parts) :
                          /\ SuccessfulResultAt(response[d], i)
                          /\ outcome[d].text = response[d].parts[i].text
               ELSE outcome[d] = TextErrorResponse(ErrNoValidResponse)

\* C12: such a message is answered with the content of its first successful
\* tool result with content when its role is tool and it has one, and with
\* the no-valid-response text when its role is another one or it has none
C12_ToolRoleToolResult ==
    \A d \in Dispatches :
        Done(d) /\ Received(d) /\ FinishReasonProceeds(d)
            /\ response[d].role # Assistant
            => IF response[d].role = ToolRole /\ HasSuccessfulResult(response[d])
               THEN /\ outcome[d].kind = "text"
                    /\ \E i \in 1 .. Len(response[d].parts) :
                          /\ SuccessfulResultAt(response[d], i)
                          /\ \A j \in 1 .. (i - 1) :
                                ~SuccessfulResultAt(response[d], j)
                          /\ outcome[d].text = response[d].parts[i].text
               ELSE outcome[d] = TextErrorResponse(ErrNoValidResponse)

C12_Witness ==
    \E d \in Dispatches :
        /\ Done(d) /\ Received(d) /\ FinishReasonProceeds(d)
        /\ response[d].role = ToolRole
        /\ Len(response[d].parts) = 2
        /\ response[d].parts[1].isError
        /\ SuccessfulResultAt(response[d], 2)
        /\ outcome[d] = TextResponse(response[d].parts[2].text)

\* C13: an assistant message with a finish reason other than canceled and
\* error and nonempty direct text is answered with exactly that text when it
\* is answered with text, whatever other parts it has, and otherwise only
\* with the hard error of a failed store call
C13_ContentVerbatim ==
    \A d \in Dispatches :
        Done(d) /\ Received(d) /\ FinishReasonProceeds(d)
            /\ response[d].role = Assistant
            /\ Content(response[d]) # <<>>
            => /\ outcome[d].kind \in {"text", "hard"}
               /\ outcome[d].kind = "text"
                      => outcome[d].text = Content(response[d])
               /\ outcome[d].kind = "hard" => err[d] # ""

C13_Witness ==
    \E d \in Dispatches :
        /\ Done(d) /\ Received(d)
        /\ response[d].role = Assistant
        /\ response[d].parts = <<ReasoningPart(<<"thought">>), TextContent(<<"X">>)>>
        /\ outcome[d] = TextResponse(<<"X">>)

\* the contents m has for each strategy, in the order of its parts
PartsWhere(m, type, isError) ==
    SelectSeq(m.parts, LAMBDA p : p.type = type /\ p.isError = isError
                                      /\ p.text # <<>>)

Labelled(ps, label) ==
    Join([i \in 1 .. Len(ps) |-> ps[i].name \o label \o ps[i].text], <<"\n">>)

PlainText(m) ==
    LET ps == PartsWhere(m, "TextContent", FALSE)
    IN  Join([i \in 1 .. Len(ps) |-> ps[i].text], <<" ">>)

Blank(s) == \A i \in 1 .. Len(s) : s[i] \in Whitespace

\* the strategy that yields for m: the first of a to f with content, where
\* blank plain text counts as content of d or not (blankYields)
FirstStrategy(m, blankYields) ==
    IF ReasoningContent(m) # <<>> THEN "a"
    ELSE IF PartsWhere(m, "ToolResult", FALSE) # <<>> THEN "b"
    ELSE IF PartsWhere(m, "ToolResult", TRUE) # <<>> THEN "c"
    ELSE IF PartsWhere(m, "TextContent", FALSE) # <<>>
            /\ (blankYields \/ ~Blank(PlainText(m))) THEN "d"
    ELSE IF HasToolCallRequest(m) THEN "e"
    ELSE "f"

\* what strategy st alone yields for m
StrategyOutcome(m, st, agentName) ==
    CASE st = "a" -> TextResponse(<<"Sub-agent analysis: ">> \o ReasoningContent(m))
      [] st = "b" -> TextResponse(<<"Sub-agent completed task with findings:", "\n">>
                         \o Labelled(PartsWhere(m, "ToolResult", FALSE), <<": ">>))
      [] st = "c" -> TextResponse(<<"Sub-agent encountered issues:", "\n">>
                         \o Labelled(PartsWhere(m, "ToolResult", TRUE), <<" error: ">>))
      [] st = "d" -> TextResponse(PlainText(m))
      [] st = "e" -> TextResponse(ToolCallSummary(m))
      [] st = "f" -> TextErrorResponse(ErrNoOutput(<<agentName>>))

\* Run answered an assistant message with empty direct content from the
\* recovery strategies
RecoveredEmptyContent(d) ==
    /\ Done(d) /\ Received(d) /\ FinishReasonProceeds(d)
    /\ response[d].role = Assistant
    /\ Content(response[d]) = <<>>
    /\ outcome[d].kind # "hard"

NoSessionNoExecution(d) ==
    /\ ~sessions[CallID(d)].exists
    /\ agent[d] = "idle"
    /\ subAgentCtx[d] = "none"
    /\ doneCh[d] = <<>>

\* Run call d is done and its input parsed with an empty prompt
EmptyPromptCall(d) == Done(d) /\ call[d].parseOK /\ call[d].prompt = ""

\* Run call d is done and its input parsed with a prompt and no agent name
NoAgentNameCall(d) ==
    Done(d) /\ call[d].parseOK /\ call[d].prompt # "" /\ call[d].agentName = ""

AgentNameRequired ==
    <<"agent_name is required. Check the tool description for available agents.">>

\* C15: a call with an empty prompt is answered "prompt is required",
\* whatever its agent name, and has created no child session and started
\* no agent execution
C15_EmptyPromptRejected ==
    \A d \in Dispatches :
        EmptyPromptCall(d) =>
            /\ outcome[d].text = <<"prompt is required">>
            /\ NoSessionNoExecution(d)

C15_Witness ==
    \E d \in Dispatches :
        /\ EmptyPromptCall(d)
        /\ call[d].agentName = "reviewer" /\ "reviewer" \in agents
        /\ call[d].sessionID # "" /\ call[d].messageID # ""
        /\ outcome[d].text = <<"prompt is required">>
        /\ NoSessionNoExecution(d)

\* C16 as claimed: a call with an empty prompt ends in an error of Run
C16_EmptyPromptHardError ==
    \A d \in Dispatches : EmptyPromptCall(d) => outcome[d].kind = "hard"

\* C16: a call with an empty prompt ends in a controlled error, the text of
\* an error response that Run returns with a nil error
C16_EmptyPromptControlledError ==
    \A d \in Dispatches :
        EmptyPromptCall(d) => outcome[d] = TextErrorResponse(<<"prompt is required">>)

C16_Witness ==
    \E d \in Dispatches :
        /\ EmptyPromptCall(d)
        /\ call[d].sessionID = ""
        /\ outcome[d].kind = "cerr"

\* C17: a Run call that returns for a named agent that is not a key of the
\* map answers with the lookup error naming that agent and listing the
\* keys the map has at that moment, in some order, and changes neither the
\* sessions nor any agent execution
C17_LookupErrorListsLiveKeys ==
    [][\A d \in Dispatches :
          /\ pc[d] = "call" /\ pc'[d] = "done"
          /\ call'[d].parseOK /\ call'[d].prompt # ""
          /\ call'[d].agentName # "" /\ call'[d].agentName \notin agents
          => /\ \E order \in KeyOrders(agents) :
                   outcome'[d] = TextErrorResponse(
                       <<"agent '", call'[d].agentName,
                         "' not found. Available agents: ">> \o FormatSlice(order))
             /\ sessions' = sessions
             /\ agent' = agent
             /\ NoSessionNoExecution(d)']_vars

C17_Witness ==
    \E d \in Dispatches :
        /\ Done(d) /\ call[d].parseOK /\ call[d].prompt # ""
        /\ call[d].agentName = "ghost"
        /\ agents # AgentsAtConstruction
        /\ outcome[d].kind = "cerr"
        /\ Contains(outcome[d].text, <<"ghost">>)
        /\ Contains(outcome[d].text, <<"reviewer">>)
        /\ NoSessionNoExecution(d)

FetchErrors == {"error getting session: ", "error getting parent session: "}
StateSyncErrors == FetchErrors \cup {"error saving parent session: "}
ExecutionErrors == {"error generating agent: ", "error creating session: "}

\* Run call d is done and had gone on to the cost roll-up with a text
ReachedRollUp(d) == Done(d) /\ Received(d) /\ contentStr[d] # <<>>

\* C20: a Run call that went on to the cost roll-up and had a store call
\* fail ends in a hard error that names the failed step and carries the
\* store's error, unlike the execution and timeout errors, never in text,
\* and has saved nothing; after a failed fetch the caller session's cost is
\* the starting cost.  With no store call failing it ends in its text.
C20_BookkeepingFailureIsHardError ==
    \A d \in Dispatches :
        ReachedRollUp(d) =>
            IF err[d] # ""
            THEN /\ outcome[d].kind = "hard"
                 /\ Len(outcome[d].text) = 2
                 /\ outcome[d].text[1] \in StateSyncErrors
                 /\ outcome[d].text[1] \notin ExecutionErrors
                 /\ outcome[d].text # ErrTimeout
                 /\ outcome[d].text[2] = err[d]
                 /\ nSaves[d] = 0
                 /\ outcome[d].text[1] \in FetchErrors => CallerCost = startCost
            ELSE outcome[d] = TextResponse(contentStr[d]) /\ nSaves[d] = 1

C20_Witness ==
    \E d \in Dispatches :
        /\ ReachedRollUp(d)
        /\ err[d] = "store failure"
        /\ outcome[d] = HardError(<<"error getting parent session: ", "store failure">>)
        /\ sessions[CallID(d)].cost > 0
        /\ CallerCost = startCost

\* the agent execution of Run call d failed: agent.Run returned an error
\* (line 209), or the value taken from the channel carried one (line 218)
RunReturnedError(d) ==
    Done(d) /\ nRuns[d] > 0 /\ agent[d] = "idle" /\ err[d] # ""

ResultCarriedError(d) ==
    /\ Done(d)
    /\ agent[d] \in {"finished", "finished late"}
    /\ doneCh[d] = <<>>
    /\ ~Received(d)

\* C21: a Run call never invokes the agent service more than once, and when
\* that execution fails (agent.Run returns an error, or the result on the
\* channel carries one) the call ends in the hard error "error generating
\* agent: " with the cause, without any recovery (no finish reason inferred,
\* no text built), without a save, and with the caller session's cost at
\* the starting cost.
C21_ExecutionFailureIsHardError ==
    \A d \in Dispatches :
        /\ nRuns[d] <= 1
        /\ (RunReturnedError(d) \/ ResultCarriedError(d)) =>
              /\ outcome[d].kind = "hard"
              /\ Len(outcome[d].text) = 2
              /\ outcome[d].text[1] = "error generating agent: "
              /\ outcome[d].text[2] \in {"session busy", "agent failed"}
              /\ finishReason[d] = FinishReasonNone
              /\ contentStr[d] = <<>>
              /\ nRuns[d] = 1
              /\ nReturns[d] = 1
              /\ nSaves[d] = 0
              /\ CallerCost = startCost

\* the result on the channel carried an error after the agent had added to
\* its session's cost
C21_Witness ==
    \E d \in Dispatches :
        /\ ResultCarriedError(d)
        /\ outcome[d] = HardError(<<"error generating agent: ", "agent failed">>)
        /\ sessions[CallID(d)].cost > 0
        /\ CallerCost = startCost

\* agent.Run itself returned the error
C21_RunErrorWitness ==
    \E d \in Dispatches :
        /\ RunReturnedError(d)
        /\ outcome[d] = HardError(<<"error generating agent: ", "session busy">>)

\* the file being read has been parsed
Parsed == parsed # NotParsed

\* what a list-valued key of either form stands for: its items in order,
\* trimmed, the empty ones left out
ItemsOf(f) == SplitTrim(f.raw)

\* C26: a file with both delimiters, a header that is YAML, a name, a
\* description and a body parses whatever forms tools, mcp_servers and
\* lsp_servers have, each on its own: a key in the string form or in the
\* list form gives its items in order, trimmed, the empty ones dropped, and
\* an absent key gives a nil list.
C26_ListsInEitherForm ==
    (Parsed /\ content \in ListInputs) =>
        /\ parsed.err = <<>>
        /\ parsed.agent.Tools.items = ItemsOf(content.header.tools)
        /\ parsed.agent.MCPServers.items = ItemsOf(content.header.mcp_servers)
        /\ parsed.agent.LSPServers.items = ItemsOf(content.header.lsp_servers)
        /\ content.header.tools = Absent => parsed.agent.Tools = NilSlice
        /\ content.header.mcp_servers = Absent =>
              parsed.agent.MCPServers = NilSlice
        /\ content.header.lsp_servers = Absent =>
              parsed.agent.LSPServers = NilSlice

\* the three keys in one form, the string form or the list form with items
\* that need no trimming, or absent: the combinations that parse as C26 says
C26_SameFormParses ==
    (/\ Parsed
     /\ content \in ListInputs
     /\ \/ /\ content.header.tools.form = "string"
           /\ \A k \in ListKeys : content.header[k].form # "list"
        \/ \A k \in ListKeys :
              /\ content.header[k].form # "string"
              /\ \A i \in 1 .. Len(content.header[k].raw) :
                    content.header[k].raw[i] = <<"view">>)
        => /\ parsed.err = <<>>
           /\ parsed.agent.Tools.items = ItemsOf(content.header.tools)
           /\ parsed.agent.MCPServers.items = ItemsOf(content.header.mcp_servers)
           /\ parsed.agent.LSPServers.items = ItemsOf(content.header.lsp_servers)

\* mcp_servers in the string form with no tools key: the file is rejected
C26_StringServersWithoutTools ==
    /\ Parsed
    /\ content \in ListInputs
    /\ content.header.tools = Absent
    /\ content.header.mcp_servers = StringForm(<<<<"view">>, <<" ", "grep", " ">>>>)
    /\ content.header.lsp_servers = Absent
    /\ parsed = ParseError(ErrYAML)

\* one of the two readings parseAgentMarkdown makes of the header takes it
HeaderParses(h) ==
    \/ UnmarshalStringsOK(h) /\ h.tools.form = "string"
    \/ UnmarshalListsOK(h)

\* the first check of the file that fails, in the order delimiters, header,
\* name, description, body; <<>> when none fails
FirstFailingCheck(c) ==
    IF c.parts < 3 THEN ErrMissingFrontmatter
    ELSE IF ~HeaderParses(c.header) THEN ErrYAML
    ELSE IF c.header.name = "" THEN ErrNameRequired
    ELSE IF c.header.description = "" THEN ErrDescriptionRequired
    ELSE IF TrimSpace(c.body) = <<>> THEN ErrSystemPromptRequired
    ELSE <<>>

\* C27: parseAgentMarkdown succeeds exactly when the content has both
\* delimiters, the header parses, and the name, the description and the
\* trimmed body are nonempty; otherwise it returns the error of the first
\* failing check (name before description before body) and no definition;
\* on success the system prompt is the trimmed body and the name and
\* description are the header's.
C27_RequiredFieldsInOrder ==
    Parsed =>
        /\ parsed.err = FirstFailingCheck(content)
        /\ parsed.err = <<>> <=>
              /\ content.parts = 3
              /\ HeaderParses(content.header)
              /\ content.header.name # ""
              /\ content.header.description # ""
              /\ TrimSpace(content.body) # <<>>
        /\ parsed.err # <<>> => parsed.agent = NoDefinition
        /\ parsed.err = <<>> =>
              /\ parsed.agent.SystemPrompt = TrimSpace(content.body)
              /\ parsed.agent.Name = content.header.name
              /\ parsed.agent.Description = content.header.description

\* a file with neither name nor description nor body is rejected for its name
C27_Witness ==
    /\ Parsed
    /\ content.parts = 3
    /\ content.header.valid
    /\ content.header.name = ""
    /\ content.header.description = ""
    /\ content.body = <<" ", "\n">>
    /\ parsed = ParseError(ErrNameRequired)

\* a complete file whose body has whitespace around it parses, trimmed
C27_SuccessWitness ==
    /\ Parsed
    /\ content.body = <<"\n", "You are X.", " ">>
    /\ parsed.err = <<>>
    /\ parsed.agent.SystemPrompt = <<"You are X.">>

\* the parsed definition has been converted
Converted == converted # NotConverted

\* the names of a list, as a set
Names(list) == {list[i] : i \in 1 .. Len(list)}

\* C28: the agent ConvertDefinitionToAgent returns has the definition's name
\* as ID and as Name, its description, and the model type passed in; a
\* nonempty Tools or LSPServers list becomes the allowlist, equal to the
\* list; a nonempty MCPServers list becomes a table with exactly the listed
\* names as keys, each mapped to nil; an empty or absent list becomes nil,
\* never an empty allowlist or table.
C28_ConvertDefinition ==
    Converted =>
        LET def == parsed.agent
            a == converted.agent
        IN  /\ a.ID = def.Name
            /\ a.Name = def.Name
            /\ a.Description = def.Description
            /\ a.Model = converted.modelType
            /\ a.AllowedTools =
                  IF def.Tools.items # <<>> THEN def.Tools ELSE NilSlice
            /\ a.AllowedLSP =
                  IF def.LSPServers.items # <<>> THEN def.LSPServers ELSE NilSlice
            /\ IF def.MCPServers.items # <<>>
               THEN /\ ~a.AllowedMCP.isNil
                    /\ DOMAIN a.AllowedMCP.entries = Names(def.MCPServers.items)
                    /\ \A s \in DOMAIN a.AllowedMCP.entries :
                          a.AllowedMCP.entries[s] = NilSlice
               ELSE a.AllowedMCP = NilMap
            /\ a.AllowedTools.items = <<>> => a.AllowedTools.isNil
            /\ a.AllowedLSP.items = <<>> => a.AllowedLSP.isNil

\* a definition with an empty, non-nil tool list, two MCP servers and no LSP
\* servers is converted: no tool allowlist, a two-key table, no LSP allowlist
C28_Witness ==
    /\ Converted
    /\ parsed.agent.Tools = MakeSlice(<<>>)
    /\ Len(parsed.agent.MCPServers.items) = 2
    /\ parsed.agent.LSPServers = NilSlice
    /\ converted.agent.AllowedTools = NilSlice
    /\ Cardinality(DOMAIN converted.agent.AllowedMCP.entries) = 2
    /\ converted.agent.AllowedLSP = NilSlice
    /\ converted.agent.Model = "large"

\* LoadAgentDefinitions has returned its registry
Loaded == loadErr = <<>>

LoaderDirs == {"user", "project"}

\* the directory is one loadAgentsFromDir lists
Listed(at) == DirOf(at).state = "ok" /\ (at = "user" => fs.home)

\* the files of the directory that are definition files, by position
MdFiles(at) ==
    IF Listed(at)
    THEN {i \in 1 .. Len(DirOf(at).entries) : DirOf(at).entries[i].kind = "md"}
    ELSE {}

\* what file i of the directory parses to
ParsedFile(at, i) == parseAgentMarkdown(DirOf(at).entries[i].content)

\* the files of the directory that load and declare name n
Declaring(at, n) ==
    {i \in MdFiles(at) :
        ParsedFile(at, i).err = <<>> /\ ParsedFile(at, i).agent.Name = n}

Max(S) == CHOOSE x \in S : \A y \in S : y <= x

Min(S) == CHOOSE x \in S : \A y \in S : x <= y

\* the registry's entry for n is what file i of the directory declares
EntryIsFile(n, at, i) ==
    /\ n \in DOMAIN definitions
    /\ definitions[n] =
          [ParsedFile(at, i).agent EXCEPT !.FilePath = <<at, i>>,
                                          !.IsPriority = (at = "project")]

DeclaredNames == {"reviewer", "tester", "helper"}

\* C22: when a loadable user-level file and a loadable project-level file
\* declare the same name, the registry's entry for it is a project-level
\* file's: the description, tools and system prompt of the project-level
\* file that declares it (the last one, if several do) and IsPriority =
\* TRUE, whatever else the two directories hold.
C22_ProjectOverridesUser ==
    Loaded =>
        \A n \in DeclaredNames :
            (Declaring("user", n) # {} /\ Declaring("project", n) # {}) =>
                LET j == Max(Declaring("project", n))
                    p == ParsedFile("project", j).agent
                IN  /\ n \in DOMAIN definitions
                    /\ definitions[n].IsPriority
                    /\ definitions[n].Description = p.Description
                    /\ definitions[n].Tools = p.Tools
                    /\ definitions[n].SystemPrompt = p.SystemPrompt
                    /\ definitions[n].FilePath = <<"project", j>>

\* the user-level "reviewer" with a tool list, the project-level one without
C22_Witness ==
    /\ Loaded
    /\ fs.home
    /\ fs.user.state = "ok"
    /\ fs.project.state = "ok"
    /\ Len(fs.user.entries) = 2
    /\ fs.user.entries[2] =
          ValidFile("reviewer", "Reviews code", StringForm(<<<<"view">>>>))
    /\ fs.project.entries =
          <<ValidFile("reviewer", "Reviews tests", Absent)>>
    /\ definitions["reviewer"].Description = "Reviews tests"
    /\ definitions["reviewer"].Tools = NilSlice
    /\ definitions["reviewer"].IsPriority

\* two or more loadable files of one directory declare n, and no file of a
\* directory loaded later does
EqualPriorityCollision(at, n) ==
    /\ Cardinality(Declaring(at, n)) >= 2
    /\ at = "user" => Declaring("project", n) = {}

WellFormed(at, i) ==
    LET c == DirOf(at).entries[i].content
    IN  /\ c.parts = 3
        /\ c.header.valid
        /\ c.header.name # ""
        /\ c.header.description # ""
        /\ TrimSpace(c.body) # <<>>

\* the names the well-formed files of the two directories declare
WellFormedNames ==
    UNION {{DirOf(at).entries[i].content.header.name :
                i \in {j \in MdFiles(at) : WellFormed(at, j)}} :
              at \in LoaderDirs}

\* the names the files that loadAgentFromFile accepts declare
LoadableNames ==
    {n \in DeclaredNames : \E at \in LoaderDirs : Declaring(at, n) # {}}

\* every entry of the registry is what some file that loads declares, under
\* the name it declares
EntriesFromLoadableFiles ==
    \A n \in DOMAIN definitions :
        \E at \in LoaderDirs : \E i \in Declaring(at, n) : EntryIsFile(n, at, i)

\* C24 as stated: the registry has an entry for exactly the names that the
\* well-formed files (name, description and nonempty body present) of the
\* two directories declare, each from such a file, and none from a file
\* without a name, a description or a body.
C24_WellFormedFilesRegistered ==
    Loaded =>
        /\ DOMAIN definitions = WellFormedNames
        /\ \A n \in DOMAIN definitions :
              \E at \in LoaderDirs : \E i \in MdFiles(at) :
                  WellFormed(at, i) /\ EntryIsFile(n, at, i)

\* the registry has an entry for exactly the names declared by the files
\* that parseAgentMarkdown accepts, whatever other files stand before them
C24_LoadableFilesRegistered ==
    Loaded => (DOMAIN definitions = LoadableNames /\ EntriesFromLoadableFiles)

\* a complete file with mcp_servers as a string and no tools is left out,
\* and the file after it is loaded
C24_WellFormedFileSkipped ==
    /\ Loaded
    /\ 1 \in MdFiles("project")
    /\ WellFormed("project", 1)
    /\ fs.project.entries[1].content.header.name = "helper"
    /\ "helper" \notin DOMAIN definitions
    /\ "tester" \in DOMAIN definitions

\* the loader stands before a directory, at an entry of the directory it is
\* listing, or at its return: one of its steps can be taken
LoaderCanStep ==
    \/ /\ loader.at \in LoaderDirs
       /\ \/ loader.i = 0
          \/ /\ Listed(loader.at)
             /\ loader.i \in 1 .. Len(DirOf(loader.at).entries)
    \/ loader.at = "return"

\* C25: LoadAgentDefinitions always comes to its return, and returns a nil
\* error: with both directories missing the registry is empty, and with an
\* unreadable directory or a file that fails to load the registry still has
\* an entry for every name declared by a file that loads.
C25_NeverReturnsError ==
    /\ loadErr \in {<<"not returned">>, <<>>}
    /\ loadErr = <<"not returned">> => LoaderCanStep
    /\ loadErr = <<>> =>
          /\ loader.at = "return"
          /\ DOMAIN definitions = LoadableNames
          /\ EntriesFromLoadableFiles
          /\ (fs.user.state = "missing" /\ fs.project.state = "missing") =>
                definitions = <<>>

\* the project directory cannot be read and the user directory has a file
\* without a description before a complete one: nil error, one agent
C25_Witness ==
    /\ loadErr = <<>>
    /\ fs.home
    /\ fs.project.state = "unreadable"
    /\ fs.user.state = "ok"
    /\ Len(fs.user.entries) = 2
    /\ fs.user.entries[1] = ValidFile("tester", "", Absent)
    /\ DOMAIN definitions = {"reviewer"}

\* both directories are missing: nil error, empty registry
C25_MissingDirsWitness ==
    /\ loadErr = <<>>
    /\ fs.home
    /\ fs.user.state = "missing"
    /\ fs.project.state = "missing"
    /\ definitions = <<>>

\* the title as C29 states it: the built-in names, "Agent" for "", and for
\* every other ID each hyphen replaced by a space and the first letter of
\* each word capitalized
HyphensToSpaces(name) ==
    IF name = <<"t", "a", "s", "k">> THEN <<"T", "a", "s", "k", " ", "A", "g", "e", "n", "t">>
    ELSE IF name = <<"c", "o", "d", "e", "-", "r", "e", "v", "i", "e", "w", "e", "r">> THEN <<"C", "o", "d", "e", " ", "R", "e", "v", "i", "e", "w", "e", "r">>
    ELSE IF name = <<"d", "e", "b", "u", "g", "g", "e", "r">> THEN <<"D", "e", "b", "u", "g", "g", "e", "r">>
    ELSE IF name = <<"t", "e", "s", "t", "-", "r", "u", "n", "n", "e", "r">> THEN <<"T", "e", "s", "t", " ", "R", "u", "n", "n", "e", "r">>
    ELSE IF name = <<"r", "e", "f", "a", "c", "t", "o", "r", "e", "r">> THEN <<"R", "e", "f", "a", "c", "t", "o", "r", "e", "r">>
    ELSE IF name = <<>> THEN <<"A", "g", "e", "n", "t">>
    ELSE LET s == ReplaceHyphens(name)
         IN  [i \in 1 .. Len(s) |->
                 IF i = 1 \/ s[i - 1] = " " THEN ToUpper(s[i]) ELSE s[i]]

\* a title has been made
TitleResolved == sessionTitle.resolved

\* the configuration map has a nonempty Name for the agent
HasConfigName(agentName) ==
    agentName \in DOMAIN agentConfigs /\ agentConfigs[agentName].Name # <<>>

\* the characters of s that are neither hyphens nor spaces, in upper case
RECURSIVE Letters(_)
Letters(s) ==
    IF s = <<>> THEN <<>>
    ELSE (IF Head(s) \in {"-", " "} THEN <<>> ELSE <<ToUpper(Head(s))>>)
             \o Letters(Tail(s))

\* the positions of s where a word starts, hyphens and spaces between words
WordStarts(s) ==
    {i \in 1 .. Len(s) :
        s[i] \notin {"-", " "} /\ (i = 1 \/ s[i - 1] \in {"-", " "})}

\* C29 as stated: the title is the configuration's Name when there is a
\* nonempty one, and otherwise the built-in name, "Agent" for "", or the ID
\* with its hyphens replaced by spaces and its words capitalized.
C29_TitleHyphensToSpaces ==
    TitleResolved =>
        sessionTitle.title =
            IF HasConfigName(sessionTitle.agentName)
            THEN agentConfigs[sessionTitle.agentName].Name
            ELSE HyphensToSpaces(sessionTitle.agentName)

\* C29: the title of the child session is the configuration's Name when
\* the map has a nonempty one for the agent; otherwise it is the built-in
\* name for task, code-reviewer, debugger, test-runner and refactorer,
\* "Agent" for "", and for every other ID its words (the runs of characters
\* between hyphens and spaces) with the first letter of each capitalized,
\* joined by single spaces: no hyphen, no space at either end, no two
\* spaces in a row.
C29_TitleFromConfigOrWords ==
    TitleResolved =>
        LET id == sessionTitle.agentName
            t == sessionTitle.title
        IN  IF HasConfigName(id) THEN t = agentConfigs[id].Name
            ELSE IF id \in {<<"t", "a", "s", "k">>,
                            <<"c", "o", "d", "e", "-", "r", "e", "v", "i", "e", "w", "e", "r">>,
                            <<"d", "e", "b", "u", "g", "g", "e", "r">>,
                            <<"t", "e", "s", "t", "-", "r", "u", "n", "n", "e", "r">>,
                            <<"r", "e", "f", "a", "c", "t", "o", "r", "e", "r">>, <<>>}
            THEN t = HyphensToSpaces(id)
            ELSE /\ \A i \in 1 .. Len(t) : t[i] # "-"
                 /\ t # <<>> => (t[1] # " " /\ t[Len(t)] # " ")
                 /\ \A i \in 1 .. Len(t) - 1 : ~(t[i] = " " /\ t[i + 1] = " ")
                 /\ Letters(t) = Letters(id)
                 /\ Cardinality(WordStarts(t)) = Cardinality(WordStarts(id))
                 /\ \A i \in WordStarts(t) : t[i] = ToUpper(t[i])
                 /\ \A i \in 1 .. Len(t) :
                       i \notin WordStarts(t) /\ t[i] # " " =>
                           \E j \in 1 .. Len(id) :
                               id[j] = t[i] /\ j \notin WordStarts(id)

\* the ID "a--" with no configuration: the title is "A", not "A  "
C29_Witness ==
    /\ TitleResolved
    /\ sessionTitle.agentName = <<"a", "-", "-">>
    /\ ~HasConfigName(sessionTitle.agentName)
    /\ sessionTitle.title = <<"A">>

\* "task" with a configured Name: the title is the Name, not "Task Agent"
C29_ConfigNameWitness ==
    /\ TitleResolved
    /\ sessionTitle.agentName = <<"t", "a", "s", "k">>
    /\ HasConfigName(sessionTitle.agentName)
    /\ sessionTitle.title = <<"M", "y", " ", "A", "g", "e", "n", "t">>

\* "task" with a configuration that has no Name: "Task Agent"
C29_BuiltInWitness ==
    /\ TitleResolved
    /\ sessionTitle.agentName = <<"t", "a", "s", "k">>
    /\ sessionTitle.agentName \in DOMAIN agentConfigs
    /\ sessionTitle.title = <<"T", "a", "s", "k", " ", "A", "g", "e", "n", "t">>

\* Info has been called
InfoCalled == toolInfo.calls > 0

\* the agents of the map that are neither "coder" nor disabled
ListedAgents(configs) ==
    {n \in DOMAIN configs :
        n # <<"c", "o", "d", "e", "r">> /\ ~configs[n].Disabled}

\* the line of a listed agent
ListedLine(configs, n) ==
    AgentLine(n, IF configs[n].Description = <<>>
                 THEN DefaultDescription ELSE configs[n].Description)

\* the lines of the listed agents, in ascending order
SortedLines(configs) ==
    LET lines == {ListedLine(configs, n) : n \in ListedAgents(configs)}
    IN  CHOOSE s \in KeyOrders(lines) :
            \A i, j \in 1 .. Len(s) : i < j => StringLess(s[i], s[j])

\* C30: what Info returns is made from the configuration map as it is at
\* the call: in place of {agents} the description has one line
\* "- name: description" for every agent of the map that is not "coder" and
\* not disabled, and for no other, with the default description in place of
\* an empty one, the lines in ascending order and joined by newlines;
\* whatever order the map gives its keys in, equal maps give equal metadata.
C30_InfoListsEnabledAgents ==
    InfoCalled =>
        /\ toolInfo.info.Name = "agent"
        /\ toolInfo.info.Required = <<"prompt", "agent_name">>
        /\ toolInfo.info.Description =
              <<Template[1]>>
                  \o Join(SortedLines(toolInfo.configs), <<"\n">>)
                  \o <<Template[3]>>
        /\ Len(SortedLines(toolInfo.configs)) =
              Cardinality(ListedAgents(toolInfo.configs))

\* a second call, after an agent was disabled: "coder" and the disabled
\* "task" are left out, "a-b" (configured description) stands before "a"
\* (default description)
C30_Witness ==
    /\ toolInfo.calls = 2
    /\ toolInfo.configs = agentConfigs
    /\ DOMAIN agentConfigs = ConfigNames
    /\ agentConfigs[<<"t", "a", "s", "k">>].Disabled
    /\ ListedAgents(agentConfigs) = {<<"a">>, <<"a", "-", "b">>}
    /\ agentConfigs[<<"a">>].Description = <<>>
    /\ SortedLines(agentConfigs) =
          <<AgentLine(<<"a", "-", "b">>, <<"D", "o", "e", "s", " ", "x">>),
            AgentLine(<<"a">>, DefaultDescription)>>
    /\ toolInfo.info.Description =
          <<Template[1]>> \o Join(SortedLines(agentConfigs), <<"\n">>)
              \o <<Template[3]>>

\* Run call d was made for the agent "coder"
CoderCall(d) == pc[d] # "call" /\ pc[d] # "unused" /\ call[d].agentName = "coder"

Started(d) == nRuns[d] = 1 /\ agent[d] # "idle"

\* the execution of d sent its value and Run took it from the channel
Consumed(d) == agent[d] \in {"finished", "finished late"} /\ doneCh[d] = <<>>

\* C33 as stated: when a Run call that started an execution has returned,
\* the one value of the completion channel has been sent and received.
C33_ValueAlwaysConsumed ==
    \A d \in Dispatches : (Started(d) /\ Done(d)) => Consumed(d)

\* C33: the completion channel never holds more than the one value of its
\* execution, and Run takes it at most once: a Run call that is past its
\* wait and did not time out has taken the value, once, and the channel is
\* empty; a Run call that returned the timeout error has taken nothing, and
\* the value, if it was sent, is still on the channel.
C33_ValueConsumedUnlessTimeout ==
    \A d \in Dispatches :
        /\ Len(doneCh[d]) <= 1
        /\ Len(doneCh[d]) = 1 => agent[d] \in {"finished", "finished late"}
        /\ ~Started(d) => doneCh[d] = <<>>
        /\ (Started(d) /\ pc[d] # "wait") =>
              IF outcome[d] = HardError(ErrTimeout)
              THEN /\ ~Consumed(d)
                   /\ ~Received(d)
                   /\ subAgentCtx[d] = "deadline exceeded"
              ELSE Consumed(d)

\* the value was sent in time, the ceiling passed, and Run returned the
\* timeout error: the value is left on the channel
C33_Witness ==
    \E d \in Dispatches :
        /\ Started(d)
        /\ Done(d)
        /\ outcome[d] = HardError(ErrTimeout)
        /\ agent[d] = "finished"
        /\ Len(doneCh[d]) = 1

\* the value was received and the call went on to its text
C33_ConsumedWitness ==
    \E d \in Dispatches :
        Started(d) /\ Done(d) /\ Consumed(d) /\ outcome[d].kind = "text"

\* C36 as stated: a Run call whose agent sent its value before the ceiling
\* never returns the timeout error.
C36_DeliveredNeverTimesOut ==
    \A d \in Dispatches :
        agent[d] = "finished" => outcome[d] # HardError(ErrTimeout)

\* C36: the timeout error is returned only once the ceiling has passed and
\* Run has not taken the value: a Run call whose wait ends before the
\* ceiling passes, or that has taken the value, never returns it.  When
\* the value was sent in time and the ceiling passes before Run takes it,
\* both cases of the select are ready and either outcome can follow.
C36_TimeoutOnlyPastCeiling ==
    \A d \in Dispatches :
        /\ outcome[d] = HardError(ErrTimeout) =>
              /\ subAgentCtx[d] = "deadline exceeded"
              /\ ~Received(d)
              /\ ~Consumed(d)
        /\ (Done(d) /\ Started(d) /\ subAgentCtx[d] # "deadline exceeded") =>
              /\ outcome[d] # HardError(ErrTimeout)
              /\ Consumed(d)

\* the agent added to its cost and sent its value in time, the ceiling
\* passed, and the select took the context's case: the timeout error, and
\* the child's cost is not rolled up
C36_Witness ==
    \E d \in Dispatches :
        /\ Done(d)
        /\ agent[d] = "finished"
        /\ Len(doneCh[d]) = 1
        /\ Head(doneCh[d]).error = ""
        /\ outcome[d] = HardError(ErrTimeout)
        /\ sessions[CallID(d)].cost > 0
        /\ CallerCost = startCost

\* from the same state the select took the channel's case: the result
C36_ReceivedPastCeiling ==
    \E d \in Dispatches :
        /\ Done(d)
        /\ agent[d] = "finished"
        /\ subAgentCtx[d] = "deadline exceeded"
        /\ Received(d)
        /\ outcome[d].kind = "text"

\* Run call d ended in one of the checks of lines 147-178
FailedCheck(d) ==
    /\ Done(d)
    /\ \/ /\ outcome[d].kind = "cerr"
          /\ outcome[d].text[1] \in
                {"error parsing parameters: ", "prompt is required",
                 "agent_name is required. Check the tool description for available agents.",
                 "agent '"}
       \/ outcome[d] = HardError(<<"session_id and message_id are required">>)

\* CreateTaskSession failed for Run call d
CreateFailed(d) ==
    Done(d) /\ Len(outcome[d].text) = 2
            /\ outcome[d].text[1] = "error creating session: "

\* C34: a Run call that is past its checks has made one child session,
\* unless the store failed to create it: the session with the call's ID,
\* whose parent is the caller's session; it has called agent.Run once, for
\* that session, and no more.  A Run call that failed a check or whose
\* session was not created has no child session and no execution.  Sibling
\* calls have different child sessions, and an execution adds cost to the
\* child session of its own call only.
C34_OneChildSessionPerDispatch ==
    /\ \A d, e \in Dispatches : d # e => CallID(d) # CallID(e)
    /\ \A d \in Dispatches :
          /\ nRuns[d] <= 1
          /\ CallID(d) # CallerSessionID
          /\ IF pc[d] \in {"unused", "call"} \/ FailedCheck(d) \/ CreateFailed(d)
             THEN /\ ~sessions[CallID(d)].exists
                  /\ nRuns[d] = 0
                  /\ agent[d] = "idle"
             ELSE /\ sessions[CallID(d)].exists
                  /\ sessions[CallID(d)].parentSessionID = call[d].sessionID
                  /\ call[d].sessionID = CallerSessionID
                  /\ nRuns[d] = 1
          /\ agent[d] = "idle" => sessions[CallID(d)].cost = 0

\* two sibling calls are both waiting, each with its own child session, and
\* one execution has added to its own session's cost only
C34_Witness ==
    /\ pc[1] = "wait"
    /\ pc[2] = "wait"
    /\ sessions[CallID(1)].exists
    /\ sessions[CallID(2)].exists
    /\ sessions[CallID(1)].parentSessionID = CallerSessionID
    /\ sessions[CallID(1)].cost = 1
    /\ sessions[CallID(2)].cost = 0
    /\ agent[1] = "running"
    /\ agent[2] = "running"

\* the checks of Run in their order, by number; 0 when the call passes all
FirstFailedCheck(in) ==
    IF ~in.parseOK THEN 1
    ELSE IF in.prompt = "" THEN 2
    ELSE IF in.agentName = "" THEN 3
    ELSE IF in.agentName \notin agents THEN 4
    ELSE IF in.sessionID = "" \/ in.messageID = "" THEN 5
    ELSE 0

\* the kind of response and the start of the text each check answers with
CheckResponse ==
    <<[kind |-> "cerr", text |-> "error parsing parameters: "],
      [kind |-> "cerr", text |-> "prompt is required"],
      [kind |-> "cerr",
       text |-> "agent_name is required. Check the tool description for available agents."],
      [kind |-> "cerr", text |-> "agent '"],
      [kind |-> "hard", text |-> "session_id and message_id are required"]>>

\* the session store is as it was before any Run call
StoreUntouched ==
    /\ CallerCost = startCost
    /\ sessions[CallerSessionID].exists
    /\ \A d \in Dispatches : sessions[CallID(d)] = NoSession

C35_MissingIDWitness ==
    \E d \in Dispatches :
        /\ Done(d)
        /\ FirstFailedCheck(call[d]) = 5
        /\ call[d].messageID = ""
        /\ outcome[d] = HardError(<<"session_id and message_id are required">>)
        /\ StoreUntouched

\* the dispatches whose roll-up saved the caller session
Aggregated == {d \in Dispatches : nSaves[d] = 1}

\* C37: no child cost is counted twice or invented: in every state, sibling
\* interleavings included, the caller session's stored cost is at least its
\* starting cost and at most the starting cost plus the costs of the child
\* sessions of the dispatches that reached the roll-up; a dispatch that
\* returned a hard error before the roll-up, or the timeout error, adds
\* nothing, so with no roll-up made the cost is the starting cost.
C37_NoCostCountedTwice ==
    /\ CallerCost >= startCost
    /\ CallerCost <= startCost + SumChildCosts(Aggregated)
    /\ Aggregated = {} => CallerCost = startCost

\* two siblings with positive child costs, one rolled up and one ended by
\* a hard error, the caller's cost being the one child's cost more
C37_Witness ==
    \E d, e \in Dispatches :
        /\ d # e
        /\ Done(d)
        /\ Done(e)
        /\ Aggregated = {d}
        /\ outcome[e].kind = "hard"
        /\ sessions[CallID(d)].cost > 0
        /\ sessions[CallID(e)].cost > 0
        /\ CallerCost = startCost + sessions[CallID(d)].cost

\* two siblings both rolled up while the caller's cost grew by one child's only
C37_LostUpdateWitness ==
    /\ Aggregated = Dispatches
    /\ \A d \in Dispatches : Done(d) /\ sessions[CallID(d)].cost > 0
    /\ CallerCost < startCost + SumChildCosts(Dispatches)

\* the strategies run on m and what they recover is blank text: m has no
\* direct content, no reasoning and no tool result to report, and its
\* nonempty plain-text parts hold white space only
RecoversOnlyBlankText(m) ==
    /\ Content(m) = <<>>
    /\ ReasoningContent(m) = <<>>
    /\ Len(ToolOutputs(m)) = 0
    /\ Len(ErrorOutputs(m)) = 0
    /\ Len(TextParts(m)) > 0
    /\ \A i \in 1 .. Len(TextParts(m)) : Blank(TextParts(m)[i])

\* C38: when the fallback strategies recover only blank text, Run does not
\* return success: it returns the controlled error "Sub-agent '<name>'
\* failed to provide any response despite multiple recovery attempts", and
\* the caller session's cost is unchanged and the caller is not saved.
C38_BlankRecoveryIsError ==
    \A d \in Dispatches :
        (/\ Done(d) /\ Received(d) /\ FinishReasonProceeds(d)
         /\ response[d].role = Assistant
         /\ err[d] = ""
         /\ RecoversOnlyBlankText(response[d]))
            => /\ outcome[d] =
                      TextErrorResponse(ErrNoRecovery(<<call[d].agentName>>))
               /\ CallerCost = startCost
               /\ nSaves[d] = 0

\* the agent spent on its child session and delivered an empty text, a
\* blank text and a tool call
C38_Witness ==
    \E d \in Dispatches :
        /\ Done(d)
        /\ response[d] \in BlankTextMessages
        /\ RecoversOnlyBlankText(response[d])
        /\ outcome[d].kind = "cerr"
        /\ outcome[d].text[3] =
               "' failed to provide any response despite multiple recovery attempts. "
        /\ sessions[CallID(d)].cost > 0
        /\ CallerCost = startCost

\* C39: FormatAgentName returns a nonempty title for every agent ID, IDs
\* made of hyphens or white space only included, so the title of a child
\* session is never empty when the agent has no configured name.
C39_TitleNeverEmpty ==
    TitleResolved => sessionTitle.title # <<>>

\* every caller of the AuthManager is between two calls
AuthQuiet == \A g \in DOMAIN authCall : authCall[g].pc = "idle"

\* the auth file is absent or holds the JSON of an object, and can be written
AuthHealthy == authFile.state \in {"missing", "json"} /\ writable

\* the caller's last call has returned, and it was a call of op
LastCall(g, op) ==
    /\ authCall[g].pc = "idle"
    /\ authCall[g].calls > 0
    /\ authCall[g].op = op

\* C32: with one AuthManager used sequentially, on an auth file that is
\* absent or parses and can be written (any earlier calls, of any of the
\* five functions, included): after a StoreGithubCopilotRefresh call
\* HasGithubCopilotAuth is true and the stored Refresh is the token of that
\* call with Type "oauth"; after a ClearGithubCopilotCredentials call
\* HasGithubCopilotAuth is false, the auth file exists and parses, it has no
\* GitHub Copilot entry and its ClaudeSub entry is as it was before the
\* call.  Both calls return nil.  (On a file that cannot be read, parsed or
\* written the call returns an error and the file is as it was.)
C32_SequentialStoreAndClear ==
    \A g \in DOMAIN authCall :
        LET c == authCall[g]
            now == LoadAuthData(authFile)
        IN  /\ (AuthHealthy /\ LastCall(g, "StoreGithubCopilotRefresh")) =>
                   /\ c.err = ""
                   /\ HasGithubCopilotAuth(authFile)
                   /\ now.authData.GithubCopilot # <<>>
                   /\ now.authData.GithubCopilot[1].Refresh = c.arg.Refresh
                   /\ now.authData.GithubCopilot[1].Type = "oauth"
            /\ (AuthHealthy /\ LastCall(g, "ClearGithubCopilotCredentials")) =>
                   /\ c.err = ""
                   /\ ~HasGithubCopilotAuth(authFile)
                   /\ authFile.state = "json"
                   /\ now.err = ""
                   /\ "github-copilot" \notin DOMAIN authFile.json
                   /\ now.authData.ClaudeSub = LoadAuthData(c.before).authData.ClaudeSub
                   /\ ("claudesub" \in DOMAIN authFile.json) =
                          (c.before.state = "json"
                              /\ "claudesub" \in DOMAIN c.before.json)
            /\ (~AuthHealthy /\ c.pc = "idle" /\ c.calls > 0) =>
                   /\ c.err # ""
                   /\ authFile = c.before

\* a token stored and then cleared, next to ClaudeSub credentials
C32_Witness ==
    \E g \in DOMAIN authCall :
        /\ LastCall(g, "ClearGithubCopilotCredentials")
        /\ authCall[g].calls = 2
        /\ authCall[g].err = ""
        /\ HasGithubCopilotAuth(authCall[g].before)
        /\ LoadAuthData(authCall[g].before).authData.GithubCopilot[1].Refresh = "g1"
        /\ "claudesub" \in DOMAIN authFile.json
        /\ ~HasGithubCopilotAuth(authFile)

\* a token stored over an earlier one
C32_StoreWitness ==
    \E g \in DOMAIN authCall :
        /\ LastCall(g, "StoreGithubCopilotRefresh")
        /\ authCall[g].calls = 2
        /\ authCall[g].arg.Refresh = "g2"
        /\ LoadAuthData(authCall[g].before).authData.GithubCopilot # <<>>
        /\ LoadAuthData(authCall[g].before).authData.GithubCopilot[1].Refresh = "g1"
        /\ HasGithubCopilotAuth(authFile)
        /\ LoadAuthData(authFile).authData.GithubCopilot[1].Refresh = "g2"

\* the auth file holds what the call (an operation and its argument) wrote
\* for its provider
Reflects(file, done) ==
    LET authData == LoadAuthData(file).authData
    IN  CASE done.op = "StoreClaudeSubCredentials" ->
                 authData.ClaudeSub =
                     <<OAuthCredentials("oauth", done.arg.Access, done.arg.Refresh,
                                        done.arg.Expires, done.arg.Scope)>>
          [] done.op = "ClearClaudeSubCredentials" -> authData.ClaudeSub = <<>>
          [] done.op = "StoreGithubCopilotRefresh" ->
                 /\ authData.GithubCopilot # <<>>
                 /\ authData.GithubCopilot[1].Refresh = done.arg.Refresh
          [] done.op = "UpdateGithubCopilotAccess" ->
                 /\ authData.GithubCopilot # <<>>
                 /\ authData.GithubCopilot[1].Access = done.arg.Access
                 /\ authData.GithubCopilot[1].Expires = done.arg.Expires
          [] done.op = "ClearGithubCopilotCredentials" ->
                 authData.GithubCopilot = <<>>
          [] OTHER -> TRUE

\* C40: credential updates for different providers made concurrently
\* through one AuthManager never lose each other: when the calls of both
\* goroutines have returned, the auth data reflects the last call of each
\* that returned nil.
C40_ConcurrentUpdatesKept ==
    AuthQuiet =>
        \A g \in DOMAIN authCall : Reflects(authFile, authCall[g].last)

====
